---- MODULE Spec2Model ----
(***************************************************************************)
(* Election management application (romeo380/shcool): the in-memory state  *)
(* tree of App.tsx, the login / role resolver, the sessions, the voting    *)
(* booth, and the admin panel's voter and life-cycle operations.           *)
(*                                                                         *)
(* React state is modelled by one variable per useState cell, with the     *)
(* source's names.  One action is one event handler together with the      *)
(* re-render and the passive effects (hydrate, write-back) it triggers,    *)
(* run to their fixpoint (operator Effects).  A callback that runs later   *)
(* (the onConfirm of a modal, the onload of a FileReader) is an action of  *)
(* its own, and carries the values its closure captured.                   *)
(*                                                                         *)
(* Strings that the code trims or lower-cases (login ids) are sequences of *)
(* one-character strings; passwords, classes and tags are atomic strings.  *)
(* Nullable objects are sequences of length 0 (null) or 1.  A null end     *)
(* time is NoTime.  Display-only fields (names, image urls, contact,       *)
(* manifesto, audit `details`, entry ids) are left out; Vote and           *)
(* AuditLogEntry timestamps are left out as well.                          *)
(*                                                                         *)
(* The gateway is the localStorage mock of services/cloudService.ts.  The   *)
(* timeouts of the debounced save, of the gateway and of the status revert *)
(* carry the time left until they fire; action Elapse moves the clock when *)
(* none of them is due.  JSON texts are records: a document, or a text     *)
(* that JSON.parse rejects.                                                *)
(*                                                                         *)
(* The behaviours are explored in several specifications, one per screen   *)
(* or concern: SpecLogin, SpecBooth, SpecVoters, SpecLifecycle,            *)
(* SpecController, SpecSuperAdmin, SpecResults, SpecSync, SpecLoad,        *)
(* SpecPositions, SpecRoster, SpecManualVote, SpecBallots,                 *)
(* SpecPublicResults, SpecIsolation and SpecEffects.  Each starts from the *)
(* state loaded from a persisted blob (SpecLoad: from the page as it       *)
(* mounts) and takes the handlers of its screen together with the logins   *)
(* and logouts that lead there.  SpecLifecycleFair and SpecEffectsFair add *)
(* the fairness of the clock, of the countdown and of the effects.         *)
(***************************************************************************)
EXTENDS Integers, Sequences, FiniteSets, TLC

\* ------------------------------------------------------------------ bounds
\* Longest audit log explored: a handler that would append to a full log is
\* not taken.
MaxLog == 5
\* Number of clock ticks explored (Date.now() advances by TickMs per tick).
MaxTicks == 1
\* Most Vote rows explored in one workspace.
MaxVoteRows == 4
\* Rounds of the hydrate / write-back effect loop explored after a handler.
MaxEffectRounds == 6

\* --------------------------------------------------------------- constants
\* 8 * 60 * 60 * 1000: the default voting window of handleSetElectionStatus.
VotingWindowMs == 28800000
\* One clock tick of the model: half a voting window (four hours).
TickMs == VotingWindowMs \div 2

Null == "null"
\* electionDetails.endTime = null
NoTime == 0 - 1
\* loginError = null
NoError == "null"

\* ------------------------------------------------------------------ strings
Space == " "

\* String.prototype.toLowerCase on one character of the model's alphabet.
LowerChar(c) ==
  CASE c = "S" -> "s"
    [] c = "A" -> "a"
    [] c = "V" -> "v"
    [] c = "U" -> "u"
    [] OTHER -> c

toLowerCase(s) == [i \in 1..Len(s) |-> LowerChar(s[i])]

RECURSIVE trimStart(_)
trimStart(s) == IF s # <<>> /\ Head(s) = Space THEN trimStart(Tail(s)) ELSE s

RECURSIVE trimEnd(_)
trimEnd(s) ==
  IF s # <<>> /\ s[Len(s)] = Space THEN trimEnd(SubSeq(s, 1, Len(s) - 1)) ELSE s

\* String.prototype.trim
trim(s) == trimEnd(trimStart(s))

\* ------------------------------------------------------------ data universe
WorkspaceIds == {"w1", "w2", "w3"}

\* getDefaultState().superAdminProfile
SeededSuperAdmin == [id |-> <<"s">>, password |-> "super123"]
\* The admin profile the Super Admin provisioned for workspace w1.
AdminOfW1 == [id |-> <<"a">>, password |-> "admin1"]

\* Two registered voters of w1.  The second id holds an upper-case letter
\* (ids embed the roll number as typed): only the case-insensitive comparison
\* of handleLogin finds it from "u".
Voter1 == [id |-> <<"v">>, class |-> "A", rollNo |-> "roll01", password |-> "roll01",
           hasVoted |-> FALSE, isBlocked |-> FALSE]
Voter2 == [id |-> <<"U">>, class |-> "B", rollNo |-> "2", password |-> "2",
           hasVoted |-> FALSE, isBlocked |-> FALSE]

\* What a user may type on the login form: an id and a password.  Ids come
\* with surrounding blanks and in the other case; passwords right and wrong.
LoginInputs ==
  { << <<"s">>, "super123" >>, << <<" ", "s", " ">>, "super123" >>,
    << <<"S">>, "super123" >>, << <<"s">>, "bad" >>,
    << <<"a">>, "admin1" >>, << <<"a">>, "roll01" >>,
    << <<"v">>, "roll01" >>, << <<"V", " ">>, "roll01" >>, << <<"v">>, "bad" >>,
    << <<"u">>, "2" >>, << <<"x">>, "bad" >> }

\* ---------------------------------------------------------------- variables
VARIABLES
  now,                 \* Date.now()
  appState, loginError,
  workspaces, superAdminProfile, workspaceData, activeWorkspace,
  positions, candidates, voters, votes, electionStatus, electionDetails,
  auditLog, resultsPublished, adminProfile,
  loggedInAdmin, loggedInVoter, loggedInSuperAdmin,
  selections, showConfirmation,          \* VotingBooth
  confirmationModal, voterToCastVoteFor, \* AdminPanel
  positionModal,       \* AdminPanel: <<>> when closed, else
                       \* << [position |-> positionModal.position] >>
  candidateModal,      \* likewise, << [candidate |-> ...] >>
  voterModal,          \* likewise, << [voter |-> ...] >>
  pendingImport,       \* the FileReader of handleVotersImport, while it reads
  theme, lastBackupTimestamp,
  syncStatus,
  syncStatusTimer,     \* syncStatusTimer.current: the id of a revert timeout
  saveTimers,          \* pending timeouts of the debounced save effect
  inFlight,            \* saves handed to the gateway and not yet settled
  revertTimers,        \* pending timeouts that turn 'synced' into 'idle'
  saveSeq,             \* number of saves started so far
  isInitialLoad,
  localStorage,        \* the item of the mock gateway: <<>> or << text >>
  backupFile,          \* the last download of "Backup": <<>> or << text >>
  restoredDocument     \* while the page reloads after a restore: << the
                       \* document restored >>; <<>> otherwise

working == << positions, candidates, voters, votes, electionStatus,
              electionDetails, auditLog, resultsPublished, adminProfile >>
session == << loggedInAdmin, loggedInVoter, loggedInSuperAdmin >>
booth == << selections, showConfirmation >>
panel == << confirmationModal, voterToCastVoteFor, positionModal,
           candidateModal, voterModal >>
settings == << theme, lastBackupTimestamp >>
sync == << syncStatus, syncStatusTimer, inFlight, revertTimers, saveSeq,
           isInitialLoad, localStorage, backupFile,
                  restoredDocument >>
vars == << now, appState, loginError, workspaces, superAdminProfile,
           workspaceData, activeWorkspace, working, session, booth, panel,
           pendingImport, settings, sync, saveTimers >>

\* ----------------------------------------------------------------- defaults
getDefaultWorkspaceData ==
  [ positions |-> <<>>, candidates |-> <<>>, voters |-> <<>>, votes |-> <<>>,
    electionStatus |-> "NOT_STARTED",
    electionDetails |-> [name |-> "School Election", endTime |-> NoTime],
    adminProfile |-> <<>>, auditLog |-> <<>>, resultsPublished |-> FALSE ]

\* The nine working fields of the current render, as one bag.
CurrentBag ==
  [ positions |-> positions, candidates |-> candidates, voters |-> voters,
    votes |-> votes, electionStatus |-> electionStatus,
    electionDetails |-> electionDetails, adminProfile |-> adminProfile,
    auditLog |-> auditLog, resultsPublished |-> resultsPublished ]

\* { ...prev, [id]: bag }
Put(wd, id, bag) ==
  [w \in (DOMAIN wd) \cup {id} |-> IF w = id THEN bag ELSE wd[w]]

\* workspaceData[id] || getDefaultWorkspaceData()
DataOf(wd, id) == IF id \in DOMAIN wd THEN wd[id] ELSE getDefaultWorkspaceData

\* ------------------------------------------------------------------ effects
(* The hydrate effect (2) and the write-back effect (3) of App, run commit  *)
(* after commit until neither is triggered.  s is the state of a render:    *)
(* aw = activeWorkspace, wd = workspaceData, bag = the working fields, app  *)
(* = appState; sa = loggedInSuperAdmin.  h: a dependency of the hydrate     *)
(* effect changed in this commit; w: a working field changed.  Both effects *)
(* of one commit read the values of that render.  React compares by         *)
(* identity: hydrating from getDefaultWorkspaceData() always yields new     *)
(* objects, hydrating from workspaceData yields the stored ones.            *)
RECURSIVE Effects(_, _, _, _, _)
Effects(s, sa, h, w, fuel) ==
  IF (~h /\ ~w) \/ fuel = 0 THEN s
  ELSE
    LET stored == s.aw # Null /\ s.aw \in DOMAIN s.wd
        data == IF stored THEN s.wd[s.aw] ELSE getDefaultWorkspaceData
        bag1 == IF h THEN data ELSE s.bag
        app1 == IF h /\ s.aw = Null /\ sa = <<>> THEN "LOGIN" ELSE s.app
        writes == w /\ s.aw # Null
        wd1 == IF writes THEN Put(s.wd, s.aw, s.bag) ELSE s.wd
    IN Effects([aw |-> s.aw, wd |-> wd1, bag |-> bag1, app |-> app1], sa,
               writes, bag1 # s.bag \/ (h /\ ~stored), fuel - 1)

\* The end of a handler whose render skips the write-back effect.
CommitWithoutWriteBack(aw, wd, wdSet, bag, app, sa) ==
  LET s == Effects([aw |-> aw, wd |-> wd, bag |-> bag, app |-> app], sa,
                   aw # activeWorkspace \/ wdSet \/ sa # loggedInSuperAdmin,
                   FALSE, MaxEffectRounds)
  IN /\ activeWorkspace' = s.aw
     /\ workspaceData' = s.wd
     /\ appState' = s.app
     /\ loggedInSuperAdmin' = sa
     /\ positions' = s.bag.positions
     /\ candidates' = s.bag.candidates
     /\ voters' = s.bag.voters
     /\ votes' = s.bag.votes
     /\ electionStatus' = s.bag.electionStatus
     /\ electionDetails' = s.bag.electionDetails
     /\ adminProfile' = s.bag.adminProfile
     /\ auditLog' = s.bag.auditLog
     /\ resultsPublished' = s.bag.resultsPublished

\* The end of a handler whose renders skip the hydrate effect.
CommitWithoutHydrate(aw, wd, wdSet, bag, app, sa) ==
  LET s == Effects([aw |-> aw, wd |-> wd, bag |-> bag, app |-> app], sa,
                   FALSE, bag # CurrentBag \/ aw # activeWorkspace, 1)
  IN /\ activeWorkspace' = s.aw
     /\ workspaceData' = s.wd
     /\ appState' = s.app
     /\ loggedInSuperAdmin' = sa
     /\ positions' = s.bag.positions
     /\ candidates' = s.bag.candidates
     /\ voters' = s.bag.voters
     /\ votes' = s.bag.votes
     /\ electionStatus' = s.bag.electionStatus
     /\ electionDetails' = s.bag.electionDetails
     /\ adminProfile' = s.bag.adminProfile
     /\ auditLog' = s.bag.auditLog
     /\ resultsPublished' = s.bag.resultsPublished

(* The end of a handler: the state its batched setters produce (aw, wd, bag, *)
(* app, sa), followed by the effects.  wdSet: the handler called            *)
(* setWorkspaceData.                                                        *)
Commit(aw, wd, wdSet, bag, app, sa) ==
  LET s == Effects([aw |-> aw, wd |-> wd, bag |-> bag, app |-> app], sa,
                   aw # activeWorkspace \/ wdSet \/ sa # loggedInSuperAdmin,
                   bag # CurrentBag, MaxEffectRounds)
  IN /\ activeWorkspace' = s.aw
     /\ workspaceData' = s.wd
     /\ appState' = s.app
     /\ loggedInSuperAdmin' = sa
     /\ positions' = s.bag.positions
     /\ candidates' = s.bag.candidates
     /\ voters' = s.bag.voters
     /\ votes' = s.bag.votes
     /\ electionStatus' = s.bag.electionStatus
     /\ electionDetails' = s.bag.electionDetails
     /\ adminProfile' = s.bag.adminProfile
     /\ auditLog' = s.bag.auditLog
     /\ resultsPublished' = s.bag.resultsPublished

\* A handler that touches neither the workspace pointer nor workspaceData.
CommitBag(bag, app) ==
  Commit(activeWorkspace, workspaceData, FALSE, bag, app, loggedInSuperAdmin)

\* ----------------------------------------------------------- debounced save
\* syncStatusTimer.current when no timeout was ever set; ids of timeouts are
\* positive.
NoTimer == 0

\* stateToSave of the debounced save effect and of handleBackupToJson: the
\* FullAppState of the current render.
stateToSave ==
  [ theme |-> theme, workspaces |-> workspaces,
    superAdminProfile |-> superAdminProfile, workspaceData |-> workspaceData,
    lastWorkspaceId |-> activeWorkspace,
    lastBackupTimestamp |-> lastBackupTimestamp ]

\* The delay of the debounced save effect: the quiet period.
DebounceMs == 1500

\* A debounced effect that leaves the timeout of an earlier render pending.
DebouncedNoCleanup(touched) ==
  saveTimers' = IF touched \/ stateToSave' # stateToSave
                THEN saveTimers \cup { [payload |-> stateToSave', due |-> DebounceMs] }
                ELSE saveTimers

(* useDebouncedEffect as App uses it, at the end of a handler: when a       *)
(* dependency of the save effect changed in the commits of the handler, the *)
(* cleanup clears the pending timeout and the effect sets a new one, whose  *)
(* callback closes over the last render.  touched: the handler set a        *)
(* dependency to a new object, which counts as a change whatever it holds.  *)
(* due: the time left until the timeout fires.                              *)
Debounced(touched) ==
  saveTimers' = IF touched \/ stateToSave' # stateToSave
                THEN { [payload |-> stateToSave', due |-> DebounceMs] }
                ELSE saveTimers

\* ---------------------------------------------------------------------- JSON
(* undefined, as the value of theme, of workspaces, of superAdminProfile    *)
(* and of workspaceData; an undefined lastBackupTimestamp is NoTime, which  *)
(* the code does not tell from null.                                        *)
Undefined == "undefined"
UndefinedList == << Undefined >>
UndefinedProfile == [id |-> << Undefined >>, password |-> Undefined]
UndefinedData == [w \in {Undefined} |-> Undefined]
\* The keys of a FullAppState whose value may be undefined, with that value.
UndefinedState ==
  [ theme |-> Undefined, workspaces |-> UndefinedList,
    superAdminProfile |-> UndefinedProfile, workspaceData |-> UndefinedData ]

(* JSON.stringify(value) for an object whose values are objects, arrays,    *)
(* strings, numbers, booleans, null or undefined: the text of the document. *)
(* A key whose value is undefined is left out of the text; JSON.parse gives *)
(* the object of the keys that are left.                                    *)
JSONstringify(value) ==
  [json |-> [k \in { key \in DOMAIN value :
                        key \in DOMAIN UndefinedState =>
                          value[key] # UndefinedState[key] } |-> value[k]]]
\* A text that JSON.parse throws on.
Garbage == [garbage |-> TRUE]
Parseable(text) == "json" \in DOMAIN text
JSONparse(text) == text.json
\* The text "{}": an object without keys.
EmptyDocument == JSONstringify(<<>>)
\* useState<AdminProfile>({} as AdminProfile)
EmptyProfile == [id |-> <<>>, password |-> Undefined]

\* Views other than "Connecting to Cloud Storage...".
PageShown == ~isInitialLoad

\* ---------------------------------------------------------------- audit log
SystemActor == [id |-> <<"System">>, role |-> "System"]
ActorOf(profile, role) == [id |-> profile.id, role |-> role]

\* setAuditLog(prev => [newLogEntry, ...prev])
addAuditLogWithoutActor(log, action, actor) ==
  <<[action |-> action, actor |-> actor]>> \o log

\* addAuditLog that records a Super Admin's action under its own role.
addAuditLogOfSuperAdminToo(log, action, sa, admin, voter) ==
  addAuditLogWithoutActor(log, action,
    IF sa # <<>> THEN ActorOf(sa[1], "Super Admin")
    ELSE IF admin # <<>> THEN ActorOf(admin[1], "Admin")
    ELSE IF voter # <<>> THEN ActorOf(voter[1], "Voter")
    ELSE SystemActor)

\* addAuditLog of the render in which sa / admin / voter are the sessions.
addAuditLog(log, action, sa, admin, voter) ==
  IF sa # <<>> THEN log
  ELSE addAuditLogWithoutActor(log, action,
         IF admin # <<>> THEN ActorOf(admin[1], "Admin")
         ELSE IF voter # <<>> THEN ActorOf(voter[1], "Voter")
         ELSE SystemActor)

\* addAuditLog of the current render.
Logged(log, action) ==
  addAuditLog(log, action, loggedInSuperAdmin, loggedInAdmin, loggedInVoter)

LogFits(log) == Len(log) <= MaxLog

\* -------------------------------------------------------------------- login
\* voters.find(v => v.id.toLowerCase() === trimmedId.toLowerCase()):
\* the index of the first match, 0 when there is none.
RECURSIVE FindVoterFrom(_, _, _)
FindVoterFrom(vs, trimmedId, i) ==
  IF i > Len(vs) THEN 0
  ELSE IF toLowerCase(vs[i].id) = toLowerCase(trimmedId) THEN i
  ELSE FindVoterFrom(vs, trimmedId, i + 1)

FindVoter(vs, trimmedId) == FindVoterFrom(vs, trimmedId, 1)

\* A resolver that tries the workspace admin before the Super Admin.
ResolveLoginAdminFirst(id, pass) ==
  LET trimmedId == trim(id)
      i == FindVoter(voters, trimmedId)
  IN IF activeWorkspace # Null /\ adminProfile # <<>> /\ trimmedId = adminProfile[1].id
        /\ pass = adminProfile[1].password
       THEN [kind |-> "ADMIN", voter |-> <<>>]
     ELSE IF trimmedId = superAdminProfile.id /\ pass = superAdminProfile.password
       THEN [kind |-> "SUPER_ADMIN", voter |-> <<>>]
     ELSE IF activeWorkspace = Null
       THEN [kind |-> "NO_WORKSPACE", voter |-> <<>>]
     ELSE IF i # 0 /\ pass = voters[i].password
       THEN IF voters[i].isBlocked
              THEN [kind |-> "BLOCKED", voter |-> <<voters[i]>>]
            ELSE IF electionStatus # "IN_PROGRESS"
              THEN [kind |-> "NOT_IN_PROGRESS", voter |-> <<voters[i]>>]
            ELSE IF voters[i].hasVoted
              THEN [kind |-> "ALREADY_VOTED", voter |-> <<voters[i]>>]
            ELSE [kind |-> "VOTER", voter |-> <<voters[i]>>]
     ELSE [kind |-> "INVALID", voter |-> <<>>]

\* A resolver that looks at the election status before the blocked flag.
ResolveLoginStatusFirst(id, pass) ==
  LET trimmedId == trim(id)
      i == FindVoter(voters, trimmedId)
  IN IF trimmedId = superAdminProfile.id /\ pass = superAdminProfile.password
       THEN [kind |-> "SUPER_ADMIN", voter |-> <<>>]
     ELSE IF activeWorkspace = Null
       THEN [kind |-> "NO_WORKSPACE", voter |-> <<>>]
     ELSE IF adminProfile # <<>> /\ trimmedId = adminProfile[1].id
             /\ pass = adminProfile[1].password
       THEN [kind |-> "ADMIN", voter |-> <<>>]
     ELSE IF i # 0 /\ pass = voters[i].password
       THEN IF electionStatus # "IN_PROGRESS"
              THEN [kind |-> "NOT_IN_PROGRESS", voter |-> <<voters[i]>>]
            ELSE IF voters[i].isBlocked
              THEN [kind |-> "BLOCKED", voter |-> <<voters[i]>>]
            ELSE IF voters[i].hasVoted
              THEN [kind |-> "ALREADY_VOTED", voter |-> <<voters[i]>>]
            ELSE [kind |-> "VOTER", voter |-> <<voters[i]>>]
     ELSE [kind |-> "INVALID", voter |-> <<>>]

\* A resolver without the "workspace required" return.
ResolveLoginNoWorkspaceCheck(id, pass) ==
  LET trimmedId == trim(id)
      i == FindVoter(voters, trimmedId)
  IN IF trimmedId = superAdminProfile.id /\ pass = superAdminProfile.password
       THEN [kind |-> "SUPER_ADMIN", voter |-> <<>>]
     ELSE IF adminProfile # <<>> /\ trimmedId = adminProfile[1].id
             /\ pass = adminProfile[1].password
       THEN [kind |-> "ADMIN", voter |-> <<>>]
     ELSE IF i # 0 /\ pass = voters[i].password
       THEN IF voters[i].isBlocked
              THEN [kind |-> "BLOCKED", voter |-> <<voters[i]>>]
            ELSE IF electionStatus # "IN_PROGRESS"
              THEN [kind |-> "NOT_IN_PROGRESS", voter |-> <<voters[i]>>]
            ELSE IF voters[i].hasVoted
              THEN [kind |-> "ALREADY_VOTED", voter |-> <<voters[i]>>]
            ELSE [kind |-> "VOTER", voter |-> <<voters[i]>>]
     ELSE [kind |-> "INVALID", voter |-> <<>>]

(* The decision of handleLogin(id, pass) in the current render: which of    *)
(* its branches returns, and the voter it found.                            *)
ResolveLogin(id, pass) ==
  LET trimmedId == trim(id)
      i == FindVoter(voters, trimmedId)
  IN IF trimmedId = superAdminProfile.id /\ pass = superAdminProfile.password
       THEN [kind |-> "SUPER_ADMIN", voter |-> <<>>]
     ELSE IF activeWorkspace = Null
       THEN [kind |-> "NO_WORKSPACE", voter |-> <<>>]
     ELSE IF adminProfile # <<>> /\ trimmedId = adminProfile[1].id
             /\ pass = adminProfile[1].password
       THEN [kind |-> "ADMIN", voter |-> <<>>]
     ELSE IF i # 0 /\ pass = voters[i].password
       THEN IF voters[i].isBlocked
              THEN [kind |-> "BLOCKED", voter |-> <<voters[i]>>]
            ELSE IF electionStatus # "IN_PROGRESS"
              THEN [kind |-> "NOT_IN_PROGRESS", voter |-> <<voters[i]>>]
            ELSE IF voters[i].hasVoted
              THEN [kind |-> "ALREADY_VOTED", voter |-> <<voters[i]>>]
            ELSE [kind |-> "VOTER", voter |-> <<voters[i]>>]
     ELSE [kind |-> "INVALID", voter |-> <<>>]

\* The message handleLogin leaves in loginError.
LoginErrorOf(kind) ==
  CASE kind = "NO_WORKSPACE" -> "Please select a workspace before logging in."
    [] kind = "BLOCKED" -> "Your account is blocked. Please contact the administrator."
    [] kind = "NOT_IN_PROGRESS" -> "The election is not currently in progress."
    [] kind = "ALREADY_VOTED" -> "You have already cast your vote."
    [] kind = "INVALID" -> "Invalid credentials. Please check your ID and password."
    [] OTHER -> NoError

\* A login that logs successes only.
LoginAuditNoFailures(log, r) ==
  CASE r.kind = "ADMIN" ->
         addAuditLogWithoutActor(log, "ADMIN_LOGIN", ActorOf(adminProfile[1], "Admin"))
    [] r.kind = "VOTER" ->
         addAuditLogWithoutActor(log, "VOTER_LOGIN_SUCCESS", ActorOf(r.voter[1], "Voter"))
    [] OTHER -> log

\* A login that also logs the attempts it cannot attribute.
LoginAuditInvalidToo(log, r) ==
  CASE r.kind = "ADMIN" ->
         addAuditLogWithoutActor(log, "ADMIN_LOGIN", ActorOf(adminProfile[1], "Admin"))
    [] r.kind \in {"BLOCKED", "NOT_IN_PROGRESS", "ALREADY_VOTED"} ->
         addAuditLogWithoutActor(log, "VOTER_LOGIN_FAIL", ActorOf(r.voter[1], "Voter"))
    [] r.kind = "VOTER" ->
         addAuditLogWithoutActor(log, "VOTER_LOGIN_SUCCESS", ActorOf(r.voter[1], "Voter"))
    [] r.kind = "INVALID" ->
         addAuditLogWithoutActor(log, "VOTER_LOGIN_FAIL", SystemActor)
    [] OTHER -> log

\* The audit entry handleLogin appends for a decision, if any.
LoginAudit(log, r) ==
  CASE r.kind = "ADMIN" ->
         addAuditLogWithoutActor(log, "ADMIN_LOGIN", ActorOf(adminProfile[1], "Admin"))
    [] r.kind \in {"BLOCKED", "NOT_IN_PROGRESS", "ALREADY_VOTED"} ->
         addAuditLogWithoutActor(log, "VOTER_LOGIN_FAIL", ActorOf(r.voter[1], "Voter"))
    [] r.kind = "VOTER" ->
         addAuditLogWithoutActor(log, "VOTER_LOGIN_SUCCESS", ActorOf(r.voter[1], "Voter"))
    [] OTHER -> log

\* handleLogin, called from UnifiedLoginScreen (appState LOGIN).
handleLogin(id, pass) ==
  LET r == ResolveLogin(id, pass)
      log == LoginAudit(auditLog, r)
  IN /\ PageShown /\ appState = "LOGIN"
     /\ superAdminProfile # UndefinedProfile
     /\ LogFits(log)
     /\ loginError' = LoginErrorOf(r.kind)
     /\ loggedInAdmin' = IF r.kind = "ADMIN" THEN adminProfile ELSE loggedInAdmin
     /\ loggedInVoter' = IF r.kind = "VOTER" THEN r.voter ELSE loggedInVoter
     /\ Commit(activeWorkspace, workspaceData, FALSE,
               [CurrentBag EXCEPT !.auditLog = log],
               CASE r.kind = "SUPER_ADMIN" -> "SUPER_ADMIN_VIEW"
                 [] r.kind = "ADMIN" -> "ADMIN_VIEW"
                 [] r.kind = "VOTER" -> "VOTER_VIEW"
                 [] OTHER -> appState,
               IF r.kind = "SUPER_ADMIN" THEN <<superAdminProfile>>
               ELSE loggedInSuperAdmin)
     /\ UNCHANGED << now, workspaces, superAdminProfile, booth, panel, pendingImport,
                     settings, sync >>
     /\ Debounced(FALSE)

Login == \E cred \in LoginInputs : handleLogin(cred[1], cred[2])

\* ------------------------------------------------------------------ logout
\* Leaving a view unmounts its component: its local state is dropped.
NoBooth == /\ selections' = [p \in {1, 2} |-> <<>>] /\ showConfirmation' = FALSE
NoPanel ==
  /\ confirmationModal' = <<>> /\ voterToCastVoteFor' = <<>>
  /\ positionModal' = <<>>
  /\ candidateModal' = <<>> /\ voterModal' = <<>>

\* AdminPanel is rendered (renderContent, case ADMIN_VIEW).
AdminPanelShown ==
  /\ appState = "ADMIN_VIEW"
  /\ loggedInAdmin # <<>> /\ activeWorkspace # Null /\ adminProfile # <<>>
\* ... and no modal of it covers the page.
AdminPanelIdle ==
  /\ AdminPanelShown /\ confirmationModal = <<>> /\ voterToCastVoteFor = <<>>
  /\ positionModal = <<>>
  /\ candidateModal = <<>> /\ voterModal = <<>>

\* VotingBooth is rendered (renderContent, case VOTER_VIEW).
VotingBoothShown ==
  appState = "VOTER_VIEW" /\ loggedInVoter # <<>> /\ activeWorkspace # Null

\* handleWorkspaceLogout: the Logout button of AdminPanel, VotingBooth and
\* VotedScreen.
handleWorkspaceLogout ==
  /\ \/ AdminPanelIdle
     \/ VotingBoothShown /\ ~showConfirmation
     \/ appState = "VOTED_SCREEN"
  /\ loggedInAdmin' = <<>>
  /\ loggedInVoter' = <<>>
  /\ CommitBag(CurrentBag, "LOGIN")
  /\ NoBooth /\ NoPanel
  /\ UNCHANGED << now, loginError, workspaces, superAdminProfile, pendingImport,
                  settings, sync >>
  /\ Debounced(FALSE)

\* SuperAdminPanel is rendered (renderContent, case SUPER_ADMIN_VIEW).
SuperAdminPanelShown == appState = "SUPER_ADMIN_VIEW" /\ loggedInSuperAdmin # <<>>
\* ... and no modal of it covers the page.
SuperAdminPanelIdle == SuperAdminPanelShown /\ confirmationModal = <<>>

\* handleFullLogout: the Logout button of SuperAdminPanel.
handleFullLogout ==
  /\ SuperAdminPanelIdle
  /\ loggedInAdmin' = <<>>
  /\ loggedInVoter' = <<>>
  /\ Commit(Null, workspaceData, FALSE, CurrentBag, "LOGIN", <<>>)
  /\ UNCHANGED << now, loginError, workspaces, superAdminProfile, booth, panel, pendingImport,
                  settings, sync >>
  /\ Debounced(FALSE)

\* handleSwitchToWorkspaceSelect: "Switch Workspace" on the login screen.
handleSwitchToWorkspaceSelect ==
  /\ PageShown /\ appState = "LOGIN"
  /\ loggedInAdmin' = <<>>
  /\ loggedInVoter' = <<>>
  /\ Commit(Null, workspaceData, FALSE, CurrentBag, "WORKSPACE_SELECT",
            loggedInSuperAdmin)
  /\ UNCHANGED << now, loginError, workspaces, superAdminProfile, booth, panel, pendingImport,
                  settings, sync >>
  /\ Debounced(FALSE)

\* handleWorkspaceSelected that carries the working fields into the workspace
\* it selects.
handleWorkspaceSelectedCarryingBag(ws) ==
  /\ appState = "WORKSPACE_SELECT"
  /\ \E i \in 1..Len(workspaces) : workspaces[i] = ws
  /\ Commit(ws, Put(workspaceData, ws, CurrentBag), TRUE, CurrentBag, "LOGIN",
            loggedInSuperAdmin)
  /\ UNCHANGED << now, loginError, workspaces, superAdminProfile,
                  loggedInAdmin, loggedInVoter, booth, panel, pendingImport,
                  settings, sync >>
  /\ Debounced(FALSE)

\* handleWorkspaceSelected, from WorkspaceManager's handleJoin.
handleWorkspaceSelected(ws) ==
  /\ appState = "WORKSPACE_SELECT"
  /\ \E i \in 1..Len(workspaces) : workspaces[i] = ws
  /\ Commit(ws, workspaceData, FALSE, CurrentBag, "LOGIN", loggedInSuperAdmin)
  /\ UNCHANGED << now, loginError, workspaces, superAdminProfile,
                  loggedInAdmin, loggedInVoter, booth, panel, pendingImport,
                  settings, sync >>
  /\ Debounced(FALSE)

WorkspaceSelected == \E ws \in WorkspaceIds : handleWorkspaceSelected(ws)

\* onGoBack of WorkspaceManager: setAppState('LOGIN').
onGoBack ==
  /\ appState = "WORKSPACE_SELECT"
  /\ CommitBag(CurrentBag, "LOGIN")
  /\ UNCHANGED << now, loginError, workspaces, superAdminProfile,
                  loggedInAdmin, loggedInVoter, booth, panel, pendingImport,
                  settings, sync >>
  /\ Debounced(FALSE)

\* onEnterWorkspace of SuperAdminPanel.
onEnterWorkspace(ws) ==
  /\ SuperAdminPanelIdle
  /\ \E i \in 1..Len(workspaces) : workspaces[i] = ws
  /\ loggedInAdmin' = DataOf(workspaceData, ws).adminProfile
  /\ Commit(ws, workspaceData, FALSE, CurrentBag, "ADMIN_VIEW", loggedInSuperAdmin)
  /\ UNCHANGED << now, loginError, workspaces, superAdminProfile,
                  loggedInVoter, booth, panel, pendingImport, settings, sync >>
  /\ Debounced(FALSE)

EnterWorkspace == \E ws \in WorkspaceIds : onEnterWorkspace(ws)

\* onReturnToSuperAdmin of AdminPanel, offered when isSuperAdminOverride.
onReturnToSuperAdmin ==
  /\ AdminPanelIdle
  /\ loggedInSuperAdmin # <<>>
  /\ loggedInAdmin' = <<>>
  /\ CommitBag(CurrentBag, "SUPER_ADMIN_VIEW")
  /\ NoPanel
  /\ UNCHANGED << now, loginError, workspaces, superAdminProfile,
                  loggedInVoter, booth, pendingImport, settings, sync >>
  /\ Debounced(FALSE)

\* ------------------------------------------------------------- initial state
\* The ballot of w1: a general position with two seats and three candidates,
\* and a position reserved to class A whose maxVotes is unset, with two
\* candidates.
Position1 == [id |-> 1, type |-> "GENERAL", associatedClass |-> Null, maxVotes |-> 2]
Position2 == [id |-> 2, type |-> "CLASS_SPECIFIC", associatedClass |-> "A", maxVotes |-> 0]
PositionIds == {1, 2}
Candidate(id, positionId) == [id |-> id, positionId |-> positionId]
FullBallot ==
  [ positions |-> << Position1, Position2 >>,
    candidates |-> << Candidate(1, 1), Candidate(2, 1), Candidate(3, 1),
                      Candidate(4, 2), Candidate(5, 2) >> ]
\* The general position was never created: class B has nothing to vote on.
ClassOnlyBallot ==
  [ positions |-> << Position2 >>,
    candidates |-> << Candidate(4, 2), Candidate(5, 2) >> ]

VoteRow(voterId, positionId, candidateId) ==
  [voterId |-> voterId, positionId |-> positionId, candidateId |-> candidateId]

LogEntry(action, id, role) == [action |-> action, actor |-> [id |-> id, role |-> role]]

(* The audit log stored for w1 by earlier sessions, newest entry first.     *)
(* status IN_PROGRESS or ENDED: the election was started, and ended, from   *)
(* the admin panel.  voted: Voter1 cast a ballot while a Super Admin        *)
(* session lingered (VOTER_LOGIN_SUCCESS, no VOTE_CAST).  Before that the   *)
(* admin created voters (VOTER_CREATED), as often as makes n entries; the   *)
(* rest of the setup was done in Super Admin override, which logs nothing.  *)
StoredLog(status, voted, admin, n) ==
  LET created == LogEntry("VOTER_CREATED", admin.id, "Admin")
      start == LogEntry("ELECTION_START", admin.id, "Admin")
      end == LogEntry("ELECTION_END", admin.id, "Admin")
      success == LogEntry("VOTER_LOGIN_SUCCESS", Voter1.id, "Voter")
      events == (IF status = "ENDED" THEN << end >> ELSE <<>>)
                \o (IF voted THEN << success >> ELSE <<>>)
                \o (IF status # "NOT_STARTED" THEN << start >> ELSE <<>>)
  IN events \o [i \in 1..(n - Len(events)) |-> created]

StoredW1(ballot, status, blocked, voted, admin, n) ==
  [ positions |-> ballot.positions,
    candidates |-> ballot.candidates,
    voters |-> << [Voter1 EXCEPT !.isBlocked = blocked, !.hasVoted = voted], Voter2 >>,
    votes |-> IF voted
              THEN [i \in 1..Len(ballot.positions) |->
                      VoteRow(Voter1.id, ballot.positions[i].id,
                              IF ballot.positions[i].id = 1 THEN 1 ELSE 4)]
              ELSE <<>>,
    electionStatus |-> status,
    electionDetails |-> [name |-> "School Election",
                         endTime |-> IF status = "IN_PROGRESS" THEN VotingWindowMs
                                     ELSE NoTime],
    adminProfile |-> << admin >>,
    auditLog |-> StoredLog(status, voted, admin, n),
    resultsPublished |-> FALSE ]

(* The state after the initial load (effect 1) of a persisted blob with     *)
(* Super Admin profile sap, workspaces w1 and w2, stored data w1data for w1 *)
(* and none for w2, and lastWorkspaceId last; followed by the first         *)
(* hydration.                                                               *)
Loaded(sap, w1data, last) ==
  LET s == Effects([aw |-> last, wd |-> [w \in {"w1"} |-> w1data],
                    bag |-> getDefaultWorkspaceData, app |-> "LOGIN"],
                   <<>>, TRUE, FALSE, MaxEffectRounds)
  IN /\ now = TickMs
     /\ appState = s.app
     /\ loginError = NoError
     /\ workspaces = << "w1", "w2" >>
     /\ superAdminProfile = sap
     /\ workspaceData = s.wd
     /\ activeWorkspace = s.aw
     /\ positions = s.bag.positions
     /\ candidates = s.bag.candidates
     /\ voters = s.bag.voters
     /\ votes = s.bag.votes
     /\ electionStatus = s.bag.electionStatus
     /\ electionDetails = s.bag.electionDetails
     /\ auditLog = s.bag.auditLog
     /\ resultsPublished = s.bag.resultsPublished
     /\ adminProfile = s.bag.adminProfile
     /\ loggedInAdmin = <<>>
     /\ loggedInVoter = <<>>
     /\ loggedInSuperAdmin = <<>>
     /\ selections = [p \in PositionIds |-> <<>>]
     /\ showConfirmation = FALSE
     /\ confirmationModal = <<>>
     /\ voterToCastVoteFor = <<>>
     /\ positionModal = <<>>
     /\ candidateModal = <<>> /\ voterModal = <<>>
     /\ pendingImport = <<>>
     /\ theme = "light"
     /\ lastBackupTimestamp = NoTime
     /\ syncStatus = "idle"
     /\ syncStatusTimer = NoTimer
     /\ inFlight = {}
     /\ revertTimers = {}
     /\ saveSeq = 0
     /\ saveTimers = { [payload |-> stateToSave, due |-> DebounceMs] }
     /\ isInitialLoad = FALSE
     /\ localStorage =
          << JSONstringify([ theme |-> "light", workspaces |-> << "w1", "w2" >>,
                             superAdminProfile |-> sap,
                             workspaceData |-> [w \in {"w1"} |-> w1data],
                             lastWorkspaceId |-> last,
                             lastBackupTimestamp |-> NoTime ]) >>
     /\ backupFile = <<>>
     /\ restoredDocument = <<>>

\* Time passes: Date.now() grows.
Tick ==
  /\ now < (1 + MaxTicks) * TickMs
  /\ now' = now + TickMs
  /\ UNCHANGED << appState, loginError, workspaces, superAdminProfile,
                  workspaceData, activeWorkspace, working, session, booth, panel,
                  pendingImport, settings, sync >>
  /\ Debounced(FALSE)

\* ------------------------------------------------------------ voting booth
RECURSIVE Filter(_, _)
\* Array.prototype.filter with the predicate given as the set of kept elements.
Filter(seq, keep) ==
  IF seq = <<>> THEN <<>>
  ELSE (IF Head(seq) \in keep THEN << Head(seq) >> ELSE <<>>) \o Filter(Tail(seq), keep)

Elements(seq) == { seq[i] : i \in 1..Len(seq) }

\* displayablePositions of VotingBooth, for a voter of class cls.
displayablePositions(ps, cls) ==
  Filter(ps, { p \in Elements(ps) :
                 p.type = "CLASS_SPECIFIC" => p.associatedClass = cls })

\* position.maxVotes || 1
maxVotesOf(position) == IF position.maxVotes # 0 THEN position.maxVotes ELSE 1

\* A selection list that grows past the seats of the position.
newSelectionsUncapped(currentSelections, candidateId, maxVotes) ==
  IF maxVotes = 1 THEN << candidateId >>
  ELSE IF candidateId \in Elements(currentSelections)
    THEN Filter(currentSelections, Elements(currentSelections) \ {candidateId})
  ELSE Append(currentSelections, candidateId)

\* The new selection list of handleSelect for one position.
newSelections(currentSelections, candidateId, maxVotes) ==
  IF maxVotes = 1 THEN << candidateId >>
  ELSE IF candidateId \in Elements(currentSelections)
    THEN Filter(currentSelections, Elements(currentSelections) \ {candidateId})
  ELSE IF Len(currentSelections) < maxVotes
    THEN Append(currentSelections, candidateId)
  ELSE currentSelections

\* handleSelect of VotingBooth: a click on a candidate card of a displayed
\* position.  selections[p] = <<>> stands for both "no key" and "[]", which
\* the code treats alike (selections[p] || [], flatMap over an empty list).
handleSelect(positionId, candidateId) ==
  /\ VotingBoothShown /\ ~showConfirmation
  /\ \E p \in Elements(displayablePositions(positions, loggedInVoter[1].class)) :
       /\ p.id = positionId
       /\ \E c \in Elements(candidates) : c.id = candidateId /\ c.positionId = p.id
       /\ selections' = [selections EXCEPT ![positionId] =
                           newSelections(selections[positionId], candidateId, maxVotesOf(p))]
  /\ UNCHANGED << now, appState, loginError, workspaces, superAdminProfile,
                  workspaceData, activeWorkspace, working, session,
                  showConfirmation, panel, pendingImport, settings, sync >>
  /\ Debounced(FALSE)

BoothSelect ==
  \E positionId \in PositionIds, candidateId \in 1..5 : handleSelect(positionId, candidateId)

isVoteComplete(ps, sel) == \A p \in Elements(ps) : Len(sel[p.id]) > 0

\* handleSubmit of VotingBooth: "Submit My Vote", a button that is disabled
\* unless isVoteComplete.
handleSubmit ==
  /\ VotingBoothShown /\ ~showConfirmation
  /\ isVoteComplete(displayablePositions(positions, loggedInVoter[1].class), selections)
  /\ showConfirmation' = TRUE
  /\ UNCHANGED << now, appState, loginError, workspaces, superAdminProfile,
                  workspaceData, activeWorkspace, working, session, selections,
                  panel, pendingImport, settings, sync >>
  /\ Debounced(FALSE)

\* "Cancel" of the booth's confirmation dialog.
cancelVote ==
  /\ VotingBoothShown /\ showConfirmation
  /\ showConfirmation' = FALSE
  /\ UNCHANGED << now, appState, loginError, workspaces, superAdminProfile,
                  workspaceData, activeWorkspace, working, session, selections,
                  panel, pendingImport, settings, sync >>
  /\ Debounced(FALSE)

RECURSIVE RowsFor(_, _, _)
\* canIds.map(canId => ({ voterId, positionId, candidateId }))
RowsFor(voterId, positionId, canIds) ==
  IF canIds = <<>> THEN <<>>
  ELSE << VoteRow(voterId, positionId, Head(canIds)) >>
       \o RowsFor(voterId, positionId, Tail(canIds))

\* Object.entries(selections).flatMap(...): integer keys in ascending order.
newVotes(voterId, sel) == RowsFor(voterId, 1, sel[1]) \o RowsFor(voterId, 2, sel[2])

\* voters.map(v => v.id === id ? { ...v, hasVoted: flag } : v)
SetHasVoted(vs, id, flag) ==
  [i \in 1..Len(vs) |-> IF vs[i].id = id THEN [vs[i] EXCEPT !.hasVoted = flag] ELSE vs[i]]

\* handleVote(selections) of App, called by confirmVote of VotingBooth.
handleVote ==
  /\ VotingBoothShown /\ showConfirmation
  /\ LET voter == loggedInVoter[1]
         bag == [CurrentBag EXCEPT
                   !.votes = votes \o newVotes(voter.id, selections),
                   !.voters = SetHasVoted(voters, voter.id, TRUE),
                   !.auditLog = Logged(auditLog, "VOTE_CAST")]
     IN /\ LogFits(bag.auditLog)
        /\ Len(bag.votes) <= MaxVoteRows
        /\ CommitBag(bag, "VOTED_SCREEN")
  /\ loggedInVoter' = <<>>
  /\ NoBooth
  /\ UNCHANGED << now, loginError, workspaces, superAdminProfile, loggedInAdmin,
                  panel, pendingImport, settings, sync >>
  /\ Debounced(FALSE)

\* -------------------------------------------------------------- admin panel
\* The actor handleSetElectionStatus passes to addAuditLogWithoutActor.
StatusActor ==
  IF loggedInAdmin # <<>> THEN ActorOf(loggedInAdmin[1], "Admin") ELSE SystemActor

\* An end time that is kept when it is not in the past.
StartEndTimeNotPast(endTime, t) ==
  IF endTime # NoTime /\ endTime # 0 /\ endTime >= t THEN endTime
  ELSE t + VotingWindowMs

\* prev.endTime && prev.endTime > Date.now() ? prev.endTime : Date.now() + 8h
StartEndTime(endTime, t) ==
  IF endTime # NoTime /\ endTime # 0 /\ endTime > t THEN endTime
  ELSE t + VotingWindowMs

\* handleSetElectionStatus that, on ENDED, leaves the end time in place.
handleSetElectionStatusKeepsEndTime(status) ==
  LET bag == CASE status = "IN_PROGRESS" ->
                    [CurrentBag EXCEPT
                       !.electionDetails.endTime = StartEndTime(electionDetails.endTime, now),
                       !.auditLog = addAuditLogWithoutActor(auditLog, "ELECTION_START", StatusActor),
                       !.electionStatus = status]
               [] status = "ENDED" ->
                    [CurrentBag EXCEPT
                       !.auditLog = addAuditLogWithoutActor(auditLog, "ELECTION_END", StatusActor),
                       !.electionStatus = status]
               [] OTHER -> [CurrentBag EXCEPT !.electionStatus = status]
  IN /\ LogFits(bag.auditLog)
     /\ CommitBag(bag, appState)
     /\ UNCHANGED << now, loginError, workspaces, superAdminProfile,
                     loggedInAdmin, loggedInVoter, booth, panel, pendingImport,
                     settings, sync >>
     /\ Debounced(FALSE)

\* handleSetElectionStatus(status) of App.
handleSetElectionStatus(status) ==
  LET bag == CASE status = "IN_PROGRESS" ->
                    [CurrentBag EXCEPT
                       !.electionDetails.endTime = StartEndTime(electionDetails.endTime, now),
                       !.auditLog = addAuditLogWithoutActor(auditLog, "ELECTION_START", StatusActor),
                       !.electionStatus = status]
               [] status = "ENDED" ->
                    [CurrentBag EXCEPT
                       !.electionDetails.endTime = NoTime,
                       !.auditLog = addAuditLogWithoutActor(auditLog, "ELECTION_END", StatusActor),
                       !.electionStatus = status]
               [] OTHER -> [CurrentBag EXCEPT !.electionStatus = status]
  IN /\ LogFits(bag.auditLog)
     /\ CommitBag(bag, appState)
     /\ UNCHANGED << now, loginError, workspaces, superAdminProfile,
                     loggedInAdmin, loggedInVoter, booth, panel, pendingImport,
                     settings, sync >>
     /\ Debounced(FALSE)

\* "Start Election" of the Election Control box, shown when NOT_STARTED.
StartElection ==
  AdminPanelIdle /\ electionStatus = "NOT_STARTED" /\ handleSetElectionStatus("IN_PROGRESS")

\* "End Election" of the Election Control box, shown when IN_PROGRESS.
EndElection ==
  AdminPanelIdle /\ electionStatus = "IN_PROGRESS" /\ handleSetElectionStatus("ENDED")

(* CountdownTimer of the dashboard, rendered while the election is          *)
(* IN_PROGRESS and electionDetails.endTime is truthy: its interval finds    *)
(* endTime - Date.now() <= 1000, clears itself and calls onEnd, which is    *)
(* setElectionStatus('ENDED').  An open modal does not stop the interval.   *)
CountdownBufferMs == 1000

CountdownEnd ==
  /\ AdminPanelShown
  /\ electionStatus = "IN_PROGRESS"
  /\ electionDetails.endTime # NoTime /\ electionDetails.endTime > 0
  /\ electionDetails.endTime - now <= CountdownBufferMs
  /\ handleSetElectionStatus("ENDED")

(* setElectionStatus, the prop of AdminPanel, called with any status: the   *)
(* handler as the controller offers it, without the panel's choice of       *)
(* button.                                                                  *)
SetElectionStatus ==
  \E status \in {"NOT_STARTED", "IN_PROGRESS", "ENDED"} :
    AdminPanelShown /\ handleSetElectionStatus(status)

\* handleSetResultsPublished that logs RESULTS_PUBLISHED for either value.
handleSetResultsPublishedOneTag(published) ==
  LET bag == [CurrentBag EXCEPT
                !.resultsPublished = published,
                !.auditLog = Logged(auditLog, "RESULTS_PUBLISHED")]
  IN /\ LogFits(bag.auditLog)
     /\ CommitBag(bag, appState)
     /\ UNCHANGED << now, loginError, workspaces, superAdminProfile,
                     loggedInAdmin, loggedInVoter, booth,
                     voterToCastVoteFor, positionModal,
                  candidateModal, voterModal,
                     pendingImport, settings, sync >>
     /\ Debounced(FALSE)

\* handleSetResultsPublished(published) of App; the modal is the caller's.
handleSetResultsPublished(published) ==
  LET bag == [CurrentBag EXCEPT
                !.resultsPublished = published,
                !.auditLog = Logged(auditLog, IF published THEN "RESULTS_PUBLISHED"
                                              ELSE "RESULTS_HIDDEN")]
  IN /\ LogFits(bag.auditLog)
     /\ CommitBag(bag, appState)
     /\ UNCHANGED << now, loginError, workspaces, superAdminProfile,
                     loggedInAdmin, loggedInVoter, booth,
                     voterToCastVoteFor, positionModal,
                  candidateModal, voterModal,
                     pendingImport, settings, sync >>
     /\ Debounced(FALSE)

\* setResultsPublished, the prop of AdminPanel, called with any value.
SetResultsPublished ==
  \E published \in BOOLEAN :
    /\ AdminPanelShown
    /\ handleSetResultsPublished(published)
    /\ UNCHANGED confirmationModal

\* handlePublishResults: "Publish Results" / "Hide Results" of the Election
\* Control box, shown when ENDED; opens the confirmation modal.
handlePublishResults ==
  /\ AdminPanelIdle /\ electionStatus = "ENDED"
  /\ confirmationModal' = << [ publish |-> ~resultsPublished ] >>
  /\ UNCHANGED << now, appState, loginError, workspaces, superAdminProfile,
                  workspaceData, activeWorkspace, working, session, booth,
                  voterToCastVoteFor, positionModal,
                  candidateModal, voterModal, pendingImport,
                  settings, sync >>
  /\ Debounced(FALSE)

\* onConfirm of the modal opened by handlePublishResults.  No session
\* changes while the modal is open: the addAuditLog it reaches is that of
\* the current sessions.
confirmPublishResults ==
  /\ AdminPanelShown /\ confirmationModal # <<>>
  /\ "publish" \in DOMAIN confirmationModal[1]
  /\ handleSetResultsPublished(confirmationModal[1].publish)
  /\ confirmationModal' = <<>>

(* handleResetElection of App.  addAuditLog queues prev => [entry, ...prev] *)
(* and setAuditLog([]) then replaces the result: the log ends empty.        *)
handleResetElection ==
  LET defaultData == getDefaultWorkspaceData
      bag == [CurrentBag EXCEPT
                !.positions = defaultData.positions,
                !.candidates = defaultData.candidates,
                !.voters = defaultData.voters,
                !.votes = defaultData.votes,
                !.auditLog = <<>>,
                !.electionStatus = defaultData.electionStatus,
                !.electionDetails = defaultData.electionDetails,
                !.resultsPublished = defaultData.resultsPublished]
  IN /\ CommitBag(bag, appState)
     /\ UNCHANGED << now, loginError, workspaces, superAdminProfile,
                     loggedInAdmin, loggedInVoter, booth, panel, pendingImport,
                     settings, sync >>
     /\ Debounced(FALSE)

\* handleResetElection, the prop of AdminPanel, called.
ResetElection == AdminPanelShown /\ handleResetElection

\* What the admin may enter as end time in the election details form.
EndTimeInputs == { NoTime, TickMs, 2 * TickMs }

\* handleSaveElectionDetails with the form's endTime field set to endTime.
handleSaveElectionDetails(endTime) ==
  /\ AdminPanelIdle
  /\ LET bag == [CurrentBag EXCEPT
                   !.electionDetails.endTime = endTime,
                   !.auditLog = Logged(auditLog, "ELECTION_UPDATED")]
     IN LogFits(bag.auditLog) /\ CommitBag(bag, appState)
  /\ UNCHANGED << now, loginError, workspaces, superAdminProfile,
                  loggedInAdmin, loggedInVoter, booth, panel, pendingImport,
                  settings, sync >>
  /\ Debounced(FALSE)

SaveElectionDetails == \E endTime \in EndTimeInputs : handleSaveElectionDetails(endTime)

\* handleToggleVoterBlock(id)
handleToggleVoterBlock(id) ==
  /\ AdminPanelIdle
  /\ \E i \in 1..Len(voters) :
       /\ voters[i].id = id /\ \A j \in 1..(i - 1) : voters[j].id # id
       /\ LET bag == [CurrentBag EXCEPT
                        !.voters = [j \in 1..Len(voters) |->
                                      IF voters[j].id = id
                                      THEN [voters[j] EXCEPT !.isBlocked = ~voters[j].isBlocked]
                                      ELSE voters[j]],
                        !.auditLog = Logged(auditLog,
                                            IF voters[i].isBlocked THEN "VOTER_UNBLOCKED"
                                            ELSE "VOTER_BLOCKED")]
          IN LogFits(bag.auditLog) /\ CommitBag(bag, appState)
  /\ UNCHANGED << now, loginError, workspaces, superAdminProfile,
                  loggedInAdmin, loggedInVoter, booth, panel, pendingImport,
                  settings, sync >>
  /\ Debounced(FALSE)

VoterIds == { Voter1.id, Voter2.id }
ToggleVoterBlock == \E id \in VoterIds : handleToggleVoterBlock(id)

\* handleResetVoterVote(id): opens the confirmation modal.  Its onConfirm
\* closes over the voters and the addAuditLog of the render of the click.
handleResetVoterVote(id) ==
  /\ AdminPanelIdle
  /\ \E i \in 1..Len(voters) : voters[i].id = id
  /\ confirmationModal' = << [ id |-> id, voters |-> voters,
                               sa |-> loggedInSuperAdmin, admin |-> loggedInAdmin,
                               voter |-> loggedInVoter ] >>
  /\ UNCHANGED << now, appState, loginError, workspaces, superAdminProfile,
                  workspaceData, activeWorkspace, working, session, booth,
                  voterToCastVoteFor, positionModal,
                  candidateModal, voterModal, pendingImport,
                  settings, sync >>
  /\ Debounced(FALSE)

ResetVoterVote == \E id \in VoterIds : handleResetVoterVote(id)

\* prev.filter(v => v.voterId !== id)
VotesWithout(vs, id) == Filter(vs, { v \in Elements(vs) : v.voterId # id })

\* onConfirm of the modal opened by handleResetVoterVote ("Reset Vote").
confirmResetVoterVote ==
  /\ AdminPanelShown /\ confirmationModal # <<>>
  /\ "id" \in DOMAIN confirmationModal[1]
  /\ LET m == confirmationModal[1]
         bag == [CurrentBag EXCEPT
                   !.votes = VotesWithout(votes, m.id),
                   !.voters = SetHasVoted(m.voters, m.id, FALSE),
                   !.auditLog = addAuditLog(auditLog, "VOTER_VOTE_RESET",
                                            m.sa, m.admin, m.voter)]
     IN LogFits(bag.auditLog) /\ CommitBag(bag, appState)
  /\ confirmationModal' = <<>>
  /\ UNCHANGED << now, loginError, workspaces, superAdminProfile,
                  loggedInAdmin, loggedInVoter, booth,
                  voterToCastVoteFor, positionModal,
                  candidateModal, voterModal,
                  pendingImport, settings, sync >>
  /\ Debounced(FALSE)

\* "Cancel" of the confirmation modal.
cancelConfirmation ==
  /\ AdminPanelShown /\ confirmationModal # <<>>
  /\ confirmationModal' = <<>>
  /\ UNCHANGED << now, appState, loginError, workspaces, superAdminProfile,
                  workspaceData, activeWorkspace, working, session, booth,
                  voterToCastVoteFor, positionModal,
                  candidateModal, voterModal, pendingImport,
                  settings, sync >>
  /\ Debounced(FALSE)

\* The one data row of the spreadsheet the admin imports.
ImportedVoter == [id |-> <<"t">>, class |-> "B", rollNo |-> "3", password |-> "3",
                  hasVoted |-> FALSE, isBlocked |-> FALSE]

\* handleVotersImport(file): starts a FileReader.  Its onload closes over the
\* voters and the addAuditLog of the render of the call.
handleVotersImport ==
  /\ AdminPanelIdle
  /\ pendingImport = <<>>
  /\ pendingImport' = << [ voters |-> voters, sa |-> loggedInSuperAdmin,
                           admin |-> loggedInAdmin, voter |-> loggedInVoter ] >>
  /\ UNCHANGED << now, appState, loginError, workspaces, superAdminProfile,
                  workspaceData, activeWorkspace, working, session, booth, panel,
                  settings, sync >>
  /\ Debounced(FALSE)

\* reader.onload of handleVotersImport: the row is skipped when the voters of
\* the closure hold its class and roll number, appended to the current voters
\* otherwise (setVoters(v => [...v, ...newVoters])).
votersImportOnload ==
  /\ pendingImport # <<>> /\ "voters" \in DOMAIN pendingImport[1]
  /\ LET r == pendingImport[1]
         duplicate == \E v \in Elements(r.voters) :
                        v.class = ImportedVoter.class /\ v.rollNo = ImportedVoter.rollNo
         bag == [CurrentBag EXCEPT
                   !.voters = IF duplicate THEN voters ELSE Append(voters, ImportedVoter),
                   !.auditLog = addAuditLog(auditLog, "VOTER_IMPORTED",
                                            r.sa, r.admin, r.voter)]
     IN LogFits(bag.auditLog) /\ CommitBag(bag, appState)
  /\ pendingImport' = <<>>
  /\ UNCHANGED << now, loginError, workspaces, superAdminProfile,
                  loggedInAdmin, loggedInVoter, booth, panel, settings, sync >>
  /\ Debounced(FALSE)

\* =========================================================== specifications
\* Who shares credentials with the Super Admin.  The Super Admin edits admin
\* ids and passwords (handleUpdateAdminProfile) and its own id and password
\* (handleSuperAdminProfileUpdate) freely: "admin" is the admin of w1 given
\* the Super Admin's credentials, "voter" the Super Admin given Voter1's.
SuperAdminOf(clash) ==
  IF clash = "voter" THEN [id |-> Voter1.id, password |-> Voter1.password]
  ELSE SeededSuperAdmin
AdminOf(clash) ==
  IF clash = "admin" THEN [id |-> SeededSuperAdmin.id, password |-> SeededSuperAdmin.password]
  ELSE AdminOfW1

Statuses == { "NOT_STARTED", "IN_PROGRESS", "ENDED" }

\* ---- the login screen and the sessions
InitLogin ==
  \E clash \in { "none", "admin", "voter" }, status \in Statuses,
     blocked \in BOOLEAN, voted \in BOOLEAN :
    /\ voted => status # "NOT_STARTED"
    /\ Loaded(SuperAdminOf(clash),
              StoredW1(FullBallot, status, blocked, voted, AdminOf(clash), MaxLog - 1), "w1")

NextLogin ==
  \/ Login
  \/ handleWorkspaceLogout
  \/ handleFullLogout
  \/ handleSwitchToWorkspaceSelect
  \/ WorkspaceSelected
  \/ onGoBack
  \/ EnterWorkspace
  \/ onReturnToSuperAdmin

SpecLogin == InitLogin /\ [][NextLogin]_vars

\* ------------------------------------------------ properties of the resolver
\* The credentials typed match the Super Admin profile: trimmed id, compared
\* case-sensitively, and the exact password.
SuperAdminMatch(id, pass) ==
  trim(id) = superAdminProfile.id /\ pass = superAdminProfile.password
\* ... the admin profile of the active workspace, likewise.
AdminMatch(id, pass) ==
  /\ adminProfile # <<>>
  /\ trim(id) = adminProfile[1].id /\ pass = adminProfile[1].password
\* ... the voter v: id compared case-insensitively, exact password, and no
\* earlier voter of the list has that id.
VoterMatch(id, pass, i) ==
  /\ i \in 1..Len(voters)
  /\ toLowerCase(voters[i].id) = toLowerCase(trim(id))
  /\ \A j \in 1..(i - 1) : toLowerCase(voters[j].id) # toLowerCase(trim(id))
  /\ pass = voters[i].password
\* The credentials reach the voter branch of the resolver with voter i.
VoterBranch(id, pass, i) ==
  /\ ~SuperAdminMatch(id, pass) /\ activeWorkspace # Null /\ ~AdminMatch(id, pass)
  /\ VoterMatch(id, pass, i)
NoSessionChange ==
  /\ loggedInAdmin' = loggedInAdmin /\ loggedInVoter' = loggedInVoter
  /\ loggedInSuperAdmin' = loggedInSuperAdmin /\ appState' = appState

(* C1: credentials that match the Super Admin profile (trimmed id, case-     *)
(* sensitive; exact password) always yield a Super Admin session and the    *)
(* SUPER_ADMIN_VIEW, whether or not a workspace is active and even when the *)
(* admin or a voter of the workspace has the same credentials; credentials  *)
(* that do not match never yield a Super Admin session.                     *)
C1_SuperAdminFirst ==
  [][\A cred \in LoginInputs : LET id == cred[1] pass == cred[2] IN
       /\ SuperAdminMatch(id, pass) /\ handleLogin(id, pass) =>
            /\ loggedInSuperAdmin' = << superAdminProfile >>
            /\ appState' = "SUPER_ADMIN_VIEW"
            /\ loggedInAdmin' = loggedInAdmin /\ loggedInVoter' = loggedInVoter
       /\ ~SuperAdminMatch(id, pass) /\ loggedInSuperAdmin' # loggedInSuperAdmin =>
            ~handleLogin(id, pass)]_vars

\* C1 witness: the Super Admin console was entered from the login screen of a
\* workspace whose admin has the Super Admin's credentials.
C1_Witness ==
  /\ appState = "SUPER_ADMIN_VIEW" /\ loggedInSuperAdmin = << superAdminProfile >>
  /\ activeWorkspace = "w1" /\ adminProfile = << superAdminProfile >>
  /\ loggedInAdmin = <<>> /\ loggedInVoter = <<>>

(* C2: for credentials that match a voter the checks run in the order       *)
(* blocked, election not in progress, already voted, and only then is the   *)
(* voter session granted: the first check that fails decides the message    *)
(* and no session is created.                                               *)
C2_VoterCheckOrder ==
  [][\A cred \in LoginInputs, i \in 1..3 : LET id == cred[1] pass == cred[2] IN
       VoterBranch(id, pass, i) /\ handleLogin(id, pass) =>
         IF voters[i].isBlocked
           THEN /\ loginError' = "Your account is blocked. Please contact the administrator."
                /\ NoSessionChange
         ELSE IF electionStatus # "IN_PROGRESS"
           THEN /\ loginError' = "The election is not currently in progress."
                /\ NoSessionChange
         ELSE IF voters[i].hasVoted
           THEN /\ loginError' = "You have already cast your vote."
                /\ NoSessionChange
         ELSE /\ loggedInVoter' = << voters[i] >>
              /\ appState' = "VOTER_VIEW"
              /\ loginError' = NoError]_vars

\* C2 witness: a blocked voter who has voted was turned away as blocked after
\* the election had ended.
C2_Witness ==
  /\ loginError = "Your account is blocked. Please contact the administrator."
  /\ electionStatus = "ENDED"
  /\ voters # <<>> /\ voters[1].isBlocked /\ voters[1].hasVoted
  /\ loggedInVoter = <<>> /\ appState = "LOGIN"

(* C3: with no active workspace, credentials that do not match the Super    *)
(* Admin are rejected with the "select a workspace" message; no session is  *)
(* created and the view does not change.                                    *)
C3_WorkspaceRequired ==
  [][\A cred \in LoginInputs : LET id == cred[1] pass == cred[2] IN
       activeWorkspace = Null /\ ~SuperAdminMatch(id, pass) /\ handleLogin(id, pass) =>
         /\ loginError' = "Please select a workspace before logging in."
         /\ NoSessionChange]_vars

\* C3 witness: a login was rejected on the login screen without a workspace.
C3_Witness ==
  /\ loginError = "Please select a workspace before logging in."
  /\ activeWorkspace = Null /\ appState = "LOGIN"
  /\ loggedInAdmin = <<>> /\ loggedInVoter = <<>> /\ loggedInSuperAdmin = <<>>

\* A step appends exactly e to the audit log.
Appends(e) == auditLog' = << e >> \o auditLog

\* The entries an Admin login and a voter login or rejection append.
AdminAndVoterLoginsLogged(id, pass) ==
  /\ ( /\ ~SuperAdminMatch(id, pass) /\ activeWorkspace # Null /\ AdminMatch(id, pass)
       /\ handleLogin(id, pass) ) =>
        Appends(LogEntry("ADMIN_LOGIN", adminProfile[1].id, "Admin"))
  /\ \A i \in 1..3 :
       VoterBranch(id, pass, i) /\ handleLogin(id, pass) =>
         Appends(LogEntry(IF ~voters[i].isBlocked /\ electionStatus = "IN_PROGRESS"
                             /\ ~voters[i].hasVoted
                          THEN "VOTER_LOGIN_SUCCESS" ELSE "VOTER_LOGIN_FAIL",
                          voters[i].id, "Voter"))

(* C4, as stated: every resolution to Super Admin, Admin or Voter and every *)
(* voter rejection (blocked, not in progress, already voted) appends        *)
(* exactly one audit entry whose actor role matches.                        *)
C4_EveryResolutionLogged ==
  [][\A cred \in LoginInputs : LET id == cred[1] pass == cred[2] IN
       /\ SuperAdminMatch(id, pass) /\ handleLogin(id, pass) =>
            /\ Len(auditLog') = Len(auditLog) + 1
            /\ Head(auditLog').actor.role = "Super Admin"
            /\ Tail(auditLog') = auditLog
       /\ AdminAndVoterLoginsLogged(id, pass)]_vars

(* C4, amended: every resolution to Admin or Voter and every voter          *)
(* rejection (blocked, not in progress, already voted) appends exactly one  *)
(* audit entry whose actor is that admin or voter; a resolution to Super    *)
(* Admin appends nothing.                                                   *)
C4_WorkspaceLoginsLogged ==
  [][\A cred \in LoginInputs : LET id == cred[1] pass == cred[2] IN
       /\ SuperAdminMatch(id, pass) /\ handleLogin(id, pass) => auditLog' = auditLog
       /\ AdminAndVoterLoginsLogged(id, pass)]_vars

\* C4 witness: the newest entry records the rejection of a voter who had
\* already voted.
C4_Witness ==
  /\ auditLog # <<>>
  /\ Head(auditLog) = LogEntry("VOTER_LOGIN_FAIL", Voter1.id, "Voter")
  /\ loginError = "You have already cast your vote."
  /\ electionStatus = "IN_PROGRESS" /\ voters[1].hasVoted /\ ~voters[1].isBlocked

(* C5: credentials that match nothing (a workspace is active; not the Super *)
(* Admin, not the admin, no voter with that id and password) set the        *)
(* "invalid credentials" message and change nothing else: no session, no    *)
(* view change, no audit entry.                                             *)
C5_InvalidChangesNothing ==
  [][\A cred \in LoginInputs : LET id == cred[1] pass == cred[2] IN
       ( /\ ~SuperAdminMatch(id, pass) /\ activeWorkspace # Null /\ ~AdminMatch(id, pass)
         /\ \A i \in 1..3 : ~VoterMatch(id, pass, i)
         /\ handleLogin(id, pass) ) =>
         /\ loginError' = "Invalid credentials. Please check your ID and password."
         /\ UNCHANGED << now, appState, workspaces, superAdminProfile, workspaceData,
                         activeWorkspace, working, session, booth, panel,
                         pendingImport, settings, sync, saveTimers >>]_vars

\* C5 witness: a login with unknown credentials was rejected.
C5_Witness ==
  /\ loginError = "Invalid credentials. Please check your ID and password."
  /\ activeWorkspace = "w1" /\ appState = "LOGIN"
  /\ loggedInAdmin = <<>> /\ loggedInVoter = <<>> /\ loggedInSuperAdmin = <<>>

\* ---- the voting booth
(* The election of w1 is in progress and nobody has voted; the ballot is    *)
(* the full one or the one without the general position.                    *)
InitBooth ==
  \E ballot \in { FullBallot, ClassOnlyBallot } :
    Loaded(SeededSuperAdmin,
           StoredW1(ballot, "IN_PROGRESS", FALSE, FALSE, AdminOfW1, MaxLog - 2), "w1")

NextBooth ==
  \/ Login
  \/ handleWorkspaceLogout
  \/ EnterWorkspace
  \/ onReturnToSuperAdmin
  \/ BoothSelect
  \/ handleSubmit
  \/ cancelVote
  \/ handleVote

SpecBooth == InitBooth /\ [][NextBooth]_vars

\* The rows a step appends to votes.
AppendedVotes == SubSeq(votes', Len(votes) + 1, Len(votes'))
\* The candidates among rows that are for voter id and position p.
CandidatesIn(rows, id, p) ==
  { rows[i].candidateId : i \in { j \in 1..Len(rows) :
                                    rows[j].voterId = id /\ rows[j].positionId = p } }
RowCount(rows, id, p) ==
  Cardinality({ j \in 1..Len(rows) : rows[j].voterId = id /\ rows[j].positionId = p })

(* C6, as stated: when the voter V confirms a ballot, one step appends one  *)
(* Vote row per selected (position, candidate) pair, sets V.hasVoted, ends  *)
(* the voter session and appends exactly one VOTE_CAST audit entry whose    *)
(* actor is V with role Voter.                                              *)
C6_VoteSubmission ==
  [][handleVote =>
       LET V == loggedInVoter[1] IN
       /\ Len(votes') >= Len(votes) /\ SubSeq(votes', 1, Len(votes)) = votes
       /\ \A i \in 1..Len(AppendedVotes) : AppendedVotes[i].voterId = V.id
       /\ \A p \in PositionIds :
            /\ CandidatesIn(AppendedVotes, V.id, p) = Elements(selections[p])
            /\ RowCount(AppendedVotes, V.id, p) = Len(selections[p])
       /\ \A i \in 1..Len(voters') : voters'[i].id = V.id => voters'[i].hasVoted
       /\ loggedInVoter' = <<>>
       /\ Appends(LogEntry("VOTE_CAST", V.id, "Voter"))]_vars

(* C7, as stated: in every state a voter has hasVoted = true exactly when   *)
(* votes holds at least one row of that voter.                              *)
C7_HasVotedIffRows ==
  \A i \in 1..Len(voters) :
    voters[i].hasVoted <=> \E j \in 1..Len(votes) : votes[j].voterId = voters[i].id

(* C8: a ballot submitted through the voting booth holds, for each          *)
(* position, as many rows as the voter selected distinct candidates, no     *)
(* candidate twice, and at most maxVotes rows (1 when maxVotes is unset).   *)
C8_BallotWithinSeats ==
  [][handleVote =>
       \A i \in 1..Len(positions) :
         LET p == positions[i]
             id == loggedInVoter[1].id
         IN /\ RowCount(AppendedVotes, id, p.id)
                 = Cardinality(Elements(selections[p.id]))
            /\ RowCount(AppendedVotes, id, p.id)
                 = Cardinality(CandidatesIn(AppendedVotes, id, p.id))
            /\ RowCount(AppendedVotes, id, p.id) <= maxVotesOf(p)]_vars

\* C8 witness: Voter1 has cast a ballot that fills both seats of the general
\* position and the one seat of the class position.
C8_Witness ==
  /\ appState = "VOTED_SCREEN"
  /\ RowCount(votes, Voter1.id, 1) = 2 /\ Cardinality(CandidatesIn(votes, Voter1.id, 1)) = 2
  /\ RowCount(votes, Voter1.id, 2) = 1
  /\ \E i \in 1..Len(voters) : voters[i].id = Voter1.id /\ voters[i].hasVoted

\* ---- the admin panel: voters
(* The election of w1 is in progress and Voter1 has voted.                  *)
InitVoters ==
  Loaded(SeededSuperAdmin,
         StoredW1(FullBallot, "IN_PROGRESS", FALSE, TRUE, AdminOfW1, MaxLog - 2), "w1")

NextVoters ==
  \/ Login
  \/ handleWorkspaceLogout
  \/ EnterWorkspace
  \/ onReturnToSuperAdmin
  \/ ToggleVoterBlock
  \/ ResetVoterVote
  \/ confirmResetVoterVote
  \/ cancelConfirmation
  \/ handleVotersImport
  \/ votersImportOnload

SpecVoters == InitVoters /\ [][NextVoters]_vars

\* ---- the admin panel: the election life cycle
(* The election of w1 has not started.                                      *)
InitLifecycle ==
  Loaded(SeededSuperAdmin,
         StoredW1(FullBallot, "NOT_STARTED", FALSE, FALSE, AdminOfW1, MaxLog - 3), "w1")

NextLifecycle ==
  \/ Tick
  \/ Login
  \/ handleWorkspaceLogout
  \/ EnterWorkspace
  \/ onReturnToSuperAdmin
  \/ StartElection
  \/ EndElection
  \/ CountdownEnd
  \/ SaveElectionDetails

SpecLifecycle == InitLifecycle /\ [][NextLifecycle]_vars

(* C9, as stated: confirming "reset vote" for voter V removes, in one step, *)
(* every Vote row of V and sets V.hasVoted to false; the rows and the       *)
(* hasVoted flag of every other voter are unchanged.                        *)
C9_ResetVoterVote ==
  [][confirmResetVoterVote =>
       LET V == confirmationModal[1].id IN
       /\ \A j \in 1..Len(votes') : votes'[j].voterId # V
       /\ votes' = VotesWithout(votes, V)
       /\ Len(voters') = Len(voters)
       /\ \A i \in 1..Len(voters) :
            /\ voters'[i].id = voters[i].id
            /\ voters'[i].hasVoted = IF voters[i].id = V THEN FALSE
                                     ELSE voters[i].hasVoted]_vars

(* C10: "Start Election" in status NOT_STARTED sets the status to           *)
(* IN_PROGRESS, keeps the end time when one is set and strictly in the      *)
(* future and sets it to now + 8 hours otherwise, and appends exactly one   *)
(* ELECTION_START audit entry; afterwards the end time is set and later     *)
(* than now.                                                                *)
C10_StartElection ==
  [][StartElection =>
       /\ electionStatus = "NOT_STARTED" /\ electionStatus' = "IN_PROGRESS"
       /\ electionDetails'.endTime =
            IF electionDetails.endTime # NoTime /\ electionDetails.endTime > now
            THEN electionDetails.endTime
            ELSE now + VotingWindowMs
       /\ Len(auditLog') = Len(auditLog) + 1
       /\ Head(auditLog').action = "ELECTION_START"
       /\ Tail(auditLog') = auditLog
       /\ electionDetails'.endTime # NoTime /\ electionDetails'.endTime > now]_vars

\* C10 witness: the admin set an end time one tick ahead and then started the
\* election, which kept it.
C10_Witness ==
  /\ electionStatus = "IN_PROGRESS"
  /\ auditLog # <<>> /\ Head(auditLog).action = "ELECTION_START"
  /\ now = TickMs /\ electionDetails.endTime = 2 * TickMs

(* C11: ending the election from IN_PROGRESS, by the admin's "End Election" *)
(* or by the countdown's callback, sets the status to ENDED, sets the end   *)
(* time to null and appends exactly one ELECTION_END audit entry; votes,    *)
(* voters, positions and candidates are unchanged.                          *)
C11_EndElection ==
  [][(EndElection \/ CountdownEnd) =>
       /\ electionStatus = "IN_PROGRESS" /\ electionStatus' = "ENDED"
       /\ electionDetails'.endTime = NoTime
       /\ Len(auditLog') = Len(auditLog) + 1
       /\ Head(auditLog').action = "ELECTION_END"
       /\ Tail(auditLog') = auditLog
       /\ UNCHANGED << votes, voters, positions, candidates >>
       /\ workspaceData'[activeWorkspace] = CurrentBag']_vars

\* C11 witness: the election was ended after a tick, with votes left in
\* place untouched; the end time is cleared.
C11_Witness ==
  /\ electionStatus = "ENDED" /\ electionDetails.endTime = NoTime
  /\ auditLog # <<>> /\ Head(auditLog).action = "ELECTION_END"
  /\ now = 2 * TickMs /\ loggedInAdmin # <<>>

\* ----------------------------------------------------------- the controller
(* The life-cycle handlers of App as AdminPanel receives them, callable     *)
(* with any argument in any status; the handlers themselves take the        *)
(* workspace through every status.                                          *)
InitController ==
  Loaded(SeededSuperAdmin,
         StoredW1(FullBallot, "NOT_STARTED", FALSE, FALSE, AdminOfW1, MaxLog - 2),
         "w1")

\* The two accounts that reach the panels: the Super Admin and the admin of w1.
ControllerLogin ==
  \E cred \in { << <<"s">>, "super123" >>, << <<"a">>, "admin1" >> } :
    handleLogin(cred[1], cred[2])

NextController ==
  \/ ControllerLogin
  \/ handleWorkspaceLogout
  \/ EnterWorkspace
  \/ onReturnToSuperAdmin
  \/ SetElectionStatus
  \/ SetResultsPublished
  \/ ResetElection

SpecController == InitController /\ [][NextController]_vars

\* status b is status a or its successor
Successor(a, b) ==
  \/ a = "NOT_STARTED" /\ b = "IN_PROGRESS"
  \/ a = "IN_PROGRESS" /\ b = "ENDED"

\* the election status stored for w1
StatusOfW1 == DataOf(workspaceData, "w1").electionStatus

(* C12, as stated: without a reset, the election status of a workspace only *)
(* moves NOT_STARTED -> IN_PROGRESS -> ENDED, and a status-setting request  *)
(* whose target is not the successor of the current status is rejected: it  *)
(* changes neither the state nor the audit log.                             *)
C12_StatusOneDirectional ==
  [][~ResetElection =>
       /\ StatusOfW1' = StatusOfW1 \/ Successor(StatusOfW1, StatusOfW1')
       /\ \A status \in Statuses :
            (AdminPanelShown /\ handleSetElectionStatus(status)
               /\ ~Successor(electionStatus, status))
            => UNCHANGED << working, workspaceData >>]_vars

(* C13, as stated: after handleResetElection the positions, candidates,     *)
(* voters and votes are empty, the status is NOT_STARTED, the election      *)
(* details are the default, resultsPublished is false, and the audit log    *)
(* is exactly one entry, an ELECTION_RESET marker.                          *)
C13_ResetElection ==
  [][ResetElection =>
       /\ positions' = <<>> /\ candidates' = <<>> /\ voters' = <<>> /\ votes' = <<>>
       /\ electionStatus' = "NOT_STARTED"
       /\ electionDetails' = getDefaultWorkspaceData.electionDetails
       /\ resultsPublished' = FALSE
       /\ Len(auditLog') = 1 /\ auditLog'[1].action = "ELECTION_RESET"]_vars

(* C15, as stated: a call of handleSetResultsPublished while the status is  *)
(* NOT_STARTED or IN_PROGRESS is a no-op: resultsPublished and the audit    *)
(* log are unchanged.                                                       *)
C15_PublishOnlyWhenEnded ==
  [][(SetResultsPublished /\ electionStatus # "ENDED")
       => UNCHANGED << resultsPublished, auditLog >>]_vars

\* ------------------------------------------------------ super admin panel
\* SuperAdminPanel keeps a confirmationModal of its own; it is mounted only
\* while AdminPanel is not, and the variable confirmationModal holds the
\* modal of whichever panel is mounted.

\* prev.filter(ws => ws.id !== wsId)
WorkspacesWithout(wss, wsId) == Filter(wss, Elements(wss) \ {wsId})

\* delete newData[wsId]
DataWithout(wd, wsId) == [w \in (DOMAIN wd) \ {wsId} |-> wd[w]]

\* handleResetWorkspaceForNewElection that leaves the voters as they are.
handleResetWorkspaceForNewElectionKeepsVoters(wsId) ==
  LET actorProfile == IF loggedInSuperAdmin # <<>> THEN loggedInSuperAdmin[1]
                      ELSE superAdminProfile
      newLog == [action |-> "ELECTION_RESET",
                 actor |-> ActorOf(actorProfile, "Super Admin")]
      wsCurrentData == DataOf(workspaceData, wsId)
      data == [wsCurrentData EXCEPT
                 !.votes = <<>>,
                 !.electionStatus = "NOT_STARTED",
                 !.electionDetails.endTime = NoTime,
                 !.resultsPublished = FALSE,
                 !.auditLog = <<newLog>> \o wsCurrentData.auditLog]
  IN /\ LogFits(data.auditLog)
     /\ Commit(activeWorkspace, Put(workspaceData, wsId, data), TRUE, CurrentBag,
               appState, loggedInSuperAdmin)
     /\ UNCHANGED << now, loginError, workspaces, superAdminProfile,
                     loggedInAdmin, loggedInVoter, booth,
                     voterToCastVoteFor, positionModal,
                  candidateModal, voterModal,
                     pendingImport, settings, sync >>
     /\ Debounced(TRUE)

\* handleResetWorkspaceForNewElection(wsId) of App; the modal is the caller's.
handleResetWorkspaceForNewElection(wsId) ==
  LET actorProfile == IF loggedInSuperAdmin # <<>> THEN loggedInSuperAdmin[1]
                      ELSE superAdminProfile
      newLog == [action |-> "ELECTION_RESET",
                 actor |-> ActorOf(actorProfile, "Super Admin")]
      wsCurrentData == DataOf(workspaceData, wsId)
      data == [wsCurrentData EXCEPT
                 !.votes = <<>>,
                 !.electionStatus = "NOT_STARTED",
                 !.electionDetails.endTime = NoTime,
                 !.resultsPublished = FALSE,
                 !.voters = [i \in 1..Len(wsCurrentData.voters) |->
                               [wsCurrentData.voters[i] EXCEPT !.hasVoted = FALSE]],
                 !.auditLog = <<newLog>> \o wsCurrentData.auditLog]
  IN /\ LogFits(data.auditLog)
     /\ Commit(activeWorkspace, Put(workspaceData, wsId, data), TRUE, CurrentBag,
               appState, loggedInSuperAdmin)
     /\ UNCHANGED << now, loginError, workspaces, superAdminProfile,
                     loggedInAdmin, loggedInVoter, booth,
                     voterToCastVoteFor, positionModal,
                  candidateModal, voterModal,
                     pendingImport, settings, sync >>
     /\ Debounced(TRUE)

\* handleEnableNewElectionRequest(workspace): the "Enable New Election"
\* button of a workspace row, shown when getWorkspaceStatus gives ENDED.
handleEnableNewElectionRequest(ws) ==
  /\ SuperAdminPanelIdle
  /\ \E i \in 1..Len(workspaces) : workspaces[i] = ws
  /\ DataOf(workspaceData, ws).electionStatus = "ENDED"
  /\ confirmationModal' = << [ enable |-> ws ] >>
  /\ UNCHANGED << now, appState, loginError, workspaces, superAdminProfile,
                  workspaceData, activeWorkspace, working, session, booth,
                  voterToCastVoteFor, positionModal,
                  candidateModal, voterModal, pendingImport,
                  settings, sync >>
  /\ Debounced(FALSE)

EnableNewElectionRequest == \E ws \in WorkspaceIds : handleEnableNewElectionRequest(ws)

\* onConfirm of that modal.
confirmEnableNewElection ==
  /\ SuperAdminPanelShown /\ confirmationModal # <<>>
  /\ "enable" \in DOMAIN confirmationModal[1]
  /\ handleResetWorkspaceForNewElection(confirmationModal[1].enable)
  /\ confirmationModal' = <<>>

\* handleDeleteWorkspace(wsId) of App; addAuditLog returns early, a Super
\* Admin being logged in.  activeWorkspace is that of the render of the
\* click, which is the current one.
\* handleDeleteWorkspace that leaves the deleted workspace active.
handleDeleteWorkspaceKeepsActive(wsId) ==
  /\ workspaces' = WorkspacesWithout(workspaces, wsId)
  /\ Commit(activeWorkspace, DataWithout(workspaceData, wsId), TRUE,
            [CurrentBag EXCEPT !.auditLog = Logged(auditLog, "WORKSPACE_DELETED")],
            appState, loggedInSuperAdmin)
  /\ UNCHANGED << now, loginError, superAdminProfile, loggedInAdmin,
                  loggedInVoter, booth, voterToCastVoteFor,
                  positionModal,
                  candidateModal, voterModal, pendingImport,
                  settings, sync >>
  /\ Debounced(TRUE)

handleDeleteWorkspace(wsId) ==
  /\ workspaces' = WorkspacesWithout(workspaces, wsId)
  /\ Commit(IF activeWorkspace = wsId THEN Null ELSE activeWorkspace,
            DataWithout(workspaceData, wsId), TRUE,
            [CurrentBag EXCEPT !.auditLog = Logged(auditLog, "WORKSPACE_DELETED")],
            appState, loggedInSuperAdmin)
  /\ UNCHANGED << now, loginError, superAdminProfile, loggedInAdmin,
                  loggedInVoter, booth, voterToCastVoteFor,
                  positionModal,
                  candidateModal, voterModal, pendingImport,
                  settings, sync >>
  /\ Debounced(TRUE)

\* handleDeleteRequest(workspace): the "Delete Workspace" button of a row.
handleDeleteRequest(ws) ==
  /\ SuperAdminPanelIdle
  /\ \E i \in 1..Len(workspaces) : workspaces[i] = ws
  /\ confirmationModal' = << [ delete |-> ws ] >>
  /\ UNCHANGED << now, appState, loginError, workspaces, superAdminProfile,
                  workspaceData, activeWorkspace, working, session, booth,
                  voterToCastVoteFor, positionModal,
                  candidateModal, voterModal, pendingImport,
                  settings, sync >>
  /\ Debounced(FALSE)

DeleteRequest == \E ws \in WorkspaceIds : handleDeleteRequest(ws)

\* onConfirm of that modal.
confirmDeleteWorkspace ==
  /\ SuperAdminPanelShown /\ confirmationModal # <<>>
  /\ "delete" \in DOMAIN confirmationModal[1]
  /\ handleDeleteWorkspace(confirmationModal[1].delete)
  /\ confirmationModal' = <<>>

\* "Cancel" of SuperAdminPanel's confirmation modal.
cancelSuperAdminConfirmation ==
  /\ SuperAdminPanelShown /\ confirmationModal # <<>>
  /\ confirmationModal' = <<>>
  /\ UNCHANGED << now, appState, loginError, workspaces, superAdminProfile,
                  workspaceData, activeWorkspace, working, session, booth,
                  voterToCastVoteFor, positionModal,
                  candidateModal, voterModal, pendingImport,
                  settings, sync >>
  /\ Debounced(FALSE)

\* setAdminProfileForWorkspace that starts the workspace from the defaults.
SetAdminProfileForWorkspaceFresh(wd, wsId, profile) ==
  Put(wd, wsId, [getDefaultWorkspaceData EXCEPT !.adminProfile = << profile >>])

\* setAdminProfileForWorkspace(wsId, profile) of App, as a new workspaceData
SetAdminProfileForWorkspace(wd, wsId, profile) ==
  Put(wd, wsId, [DataOf(wd, wsId) EXCEPT !.adminProfile = << profile >>])

\* The workspace that "Create Workspace" adds, and the admin it generates.
NewWorkspace == "w3"
NewAdminProfile == [id |-> <<"n">>, password |-> "gen123"]

\* handleCreateWorkspace of SuperAdminPanel; the generated id ends in the
\* clock's last six digits and is taken to be new.
handleCreateWorkspace ==
  /\ SuperAdminPanelIdle
  /\ \A i \in 1..Len(workspaces) : workspaces[i] # NewWorkspace
  /\ workspaces' = Append(workspaces, NewWorkspace)
  /\ Commit(activeWorkspace,
            SetAdminProfileForWorkspace(workspaceData, NewWorkspace, NewAdminProfile),
            TRUE,
            [CurrentBag EXCEPT !.auditLog = Logged(auditLog, "WORKSPACE_CREATED")],
            appState, loggedInSuperAdmin)
  /\ UNCHANGED << now, loginError, superAdminProfile, loggedInAdmin,
                  loggedInVoter, booth, panel, pendingImport, settings, sync >>
  /\ Debounced(TRUE)

\* handleUpdateAdminProfile of SuperAdminPanel, the editor of workspace ws
\* saved with the id and password of profile.
handleUpdateAdminProfile(ws, profile) ==
  /\ SuperAdminPanelIdle
  /\ \E i \in 1..Len(workspaces) : workspaces[i] = ws
  /\ Commit(activeWorkspace, SetAdminProfileForWorkspace(workspaceData, ws, profile),
            TRUE, CurrentBag, appState, loggedInSuperAdmin)
  /\ UNCHANGED << now, loginError, workspaces, superAdminProfile, loggedInAdmin,
                  loggedInVoter, booth, panel, pendingImport, settings, sync >>
  /\ Debounced(TRUE)

UpdateAdminProfile ==
  \E ws \in WorkspaceIds, clash \in { "none", "admin" } :
    handleUpdateAdminProfile(ws, AdminOf(clash))

\* handleSuperAdminProfileUpdate of SuperAdminPanel, saved with the id and
\* password of profile; addAuditLog returns early.
handleSuperAdminProfileUpdate(profile) ==
  /\ SuperAdminPanelIdle
  /\ superAdminProfile' = profile
  /\ CommitBag([CurrentBag EXCEPT !.auditLog = Logged(auditLog, "SA_PROFILE_UPDATED")],
               appState)
  /\ UNCHANGED << now, loginError, workspaces, loggedInAdmin, loggedInVoter,
                  booth, panel, pendingImport, settings, sync >>
  /\ Debounced(TRUE)

SuperAdminProfileUpdate ==
  \E clash \in { "none", "voter" } : handleSuperAdminProfileUpdate(SuperAdminOf(clash))

InitSuperAdmin ==
  \E last \in { "w1", Null } :
    Loaded(SeededSuperAdmin,
           StoredW1(FullBallot, "ENDED", FALSE, TRUE, AdminOfW1, MaxLog - 1), last)

NextSuperAdmin ==
  \/ Login
  \/ handleFullLogout
  \/ EnterWorkspace
  \/ onReturnToSuperAdmin
  \/ EnableNewElectionRequest
  \/ confirmEnableNewElection
  \/ DeleteRequest
  \/ confirmDeleteWorkspace
  \/ cancelSuperAdminConfirmation
  \/ handleCreateWorkspace
  \/ UpdateAdminProfile
  \/ SuperAdminProfileUpdate

SpecSuperAdmin == InitSuperAdmin /\ [][NextSuperAdmin]_vars

(* C14: "Enable New Election" on workspace W, active or not, leaves W with  *)
(* no Vote rows, every voter's hasVoted false and the voters otherwise as   *)
(* they were, status NOT_STARTED, end time null, resultsPublished false,    *)
(* candidates, positions and adminProfile unchanged, and the previous audit *)
(* log with exactly one ELECTION_RESET entry of actor role Super Admin      *)
(* prepended; no other workspace's data changes; when W is the active       *)
(* workspace the working fields hold the same once the effects settled.     *)
C14_EnableNewElection ==
  [][confirmEnableNewElection =>
       LET W == confirmationModal[1].enable
           old == DataOf(workspaceData, W)
           new == workspaceData'[W]
       IN /\ W \in DOMAIN workspaceData'
          /\ new.votes = <<>>
          /\ Len(new.voters) = Len(old.voters)
          /\ \A i \in 1..Len(old.voters) :
               new.voters[i] = [old.voters[i] EXCEPT !.hasVoted = FALSE]
          /\ new.electionStatus = "NOT_STARTED"
          /\ new.electionDetails.endTime = NoTime
          /\ new.electionDetails.name = old.electionDetails.name
          /\ new.resultsPublished = FALSE
          /\ new.candidates = old.candidates
          /\ new.positions = old.positions
          /\ new.adminProfile = old.adminProfile
          /\ Len(new.auditLog) = Len(old.auditLog) + 1
          /\ Tail(new.auditLog) = old.auditLog
          /\ Head(new.auditLog).action = "ELECTION_RESET"
          /\ Head(new.auditLog).actor.role = "Super Admin"
          /\ DOMAIN workspaceData' = DOMAIN workspaceData \cup {W}
          /\ \A w \in DOMAIN workspaceData : w # W => workspaceData'[w] = workspaceData[w]
          /\ activeWorkspace' = activeWorkspace
          /\ activeWorkspace = W => CurrentBag' = new
          /\ activeWorkspace # W => UNCHANGED working]_vars

\* C14 witness: the Super Admin enabled a new election on w1 while w1 was
\* the active workspace; Voter1, who had voted, may vote again.
C14_Witness ==
  /\ SuperAdminPanelShown /\ activeWorkspace = "w1"
  /\ electionStatus = "NOT_STARTED" /\ votes = <<>>
  /\ \A i \in 1..Len(voters) : ~voters[i].hasVoted
  /\ Len(auditLog) >= 2 /\ Head(auditLog).actor.role = "Super Admin"
  /\ workspaceData["w1"] = CurrentBag

\* the same on a workspace that is not the active one
C14_WitnessInactive ==
  /\ SuperAdminPanelShown /\ activeWorkspace # "w1"
  /\ "w1" \in DOMAIN workspaceData
  /\ workspaceData["w1"].auditLog # <<>>
  /\ Head(workspaceData["w1"].auditLog).actor.role = "Super Admin"

\* ---- publishing the results of an ended election
InitResults ==
  Loaded(SeededSuperAdmin,
         StoredW1(FullBallot, "ENDED", FALSE, FALSE, AdminOfW1, MaxLog - 3), "w1")

NextResults ==
  \/ Login
  \/ handleWorkspaceLogout
  \/ EnterWorkspace
  \/ onReturnToSuperAdmin
  \/ handlePublishResults
  \/ confirmPublishResults
  \/ cancelConfirmation

SpecResults == InitResults /\ [][NextResults]_vars

\* the toggle appended exactly one entry, of the tag of the new value
ToggleLogged ==
  /\ Len(auditLog') = Len(auditLog) + 1
  /\ Tail(auditLog') = auditLog
  /\ Head(auditLog').action = IF resultsPublished' THEN "RESULTS_PUBLISHED"
                               ELSE "RESULTS_HIDDEN"

(* C16, as stated: every toggle of resultsPublished appends exactly one     *)
(* entry to the workspace's audit log, RESULTS_PUBLISHED when the new value *)
(* is true and RESULTS_HIDDEN when it is false, whichever session (Admin    *)
(* login, or Super Admin inside the workspace) performs it.                 *)
C16_EveryToggleLogged ==
  [][confirmPublishResults =>
       /\ resultsPublished' = ~resultsPublished
       /\ ToggleLogged]_vars

(* C16, amended: a toggle of resultsPublished appends exactly one entry,    *)
(* RESULTS_PUBLISHED or RESULTS_HIDDEN by the new value, with the logged-in *)
(* Admin as actor, when no Super Admin session is present; while one is     *)
(* present the toggle leaves the audit log unchanged.                       *)
C16_ToggleLoggedUnlessSuperAdmin ==
  [][confirmPublishResults =>
       /\ resultsPublished' = ~resultsPublished
       /\ workspaceData'[activeWorkspace] = CurrentBag'
       /\ IF loggedInSuperAdmin = <<>>
          THEN /\ ToggleLogged
               /\ Head(auditLog').actor = ActorOf(loggedInAdmin[1], "Admin")
          ELSE auditLog' = auditLog]_vars

\* C16 witness: the admin published the results and hid them again.
C16_Witness ==
  /\ loggedInSuperAdmin = <<>> /\ AdminPanelShown /\ ~resultsPublished
  /\ Len(auditLog) >= 2
  /\ auditLog[1].action = "RESULTS_HIDDEN" /\ auditLog[2].action = "RESULTS_PUBLISHED"

\* the Super Admin, inside the workspace, published them: nothing logged
C16_WitnessSuperAdmin ==
  /\ loggedInSuperAdmin # <<>> /\ AdminPanelShown /\ resultsPublished
  /\ \A i \in 1..Len(auditLog) : auditLog[i].action # "RESULTS_PUBLISHED"

\* log a is log b with entries added at the head
ExtendsLog(a, b) ==
  /\ Len(a) >= Len(b)
  /\ SubSeq(a, Len(a) - Len(b) + 1, Len(a)) = b

\* the audit log stored for workspace w
LogOf(wd, w) == DataOf(wd, w).auditLog

\* the working audit log is the stored log of the active workspace
WorkingLogStored ==
  activeWorkspace \in DOMAIN workspaceData => auditLog = LogOf(workspaceData, activeWorkspace)

NoSuperAdminEntry(wd) ==
  \A w \in DOMAIN wd : \A i \in 1..Len(wd[w].auditLog) :
    wd[w].auditLog[i].actor.role # "Super Admin"

\* a Super Admin operation of the panel, the resets aside
SuperAdminEdit ==
  \/ handleCreateWorkspace
  \/ confirmDeleteWorkspace
  \/ UpdateAdminProfile
  \/ SuperAdminProfileUpdate

\* the stored logs of the workspaces that remain are as they were
LogsUnchanged ==
  \A w \in DOMAIN workspaceData' : LogOf(workspaceData', w) = LogOf(workspaceData, w)

(* C18, as stated: no workspace log ever holds an entry whose actor role is *)
(* Super Admin, and the Super Admin operations (workspace create and        *)
(* delete, profile update, Enable New Election) leave every workspace's log *)
(* unchanged.                                                               *)
C18_SuperAdminNeverLogged ==
  [][/\ NoSuperAdminEntry(workspaceData')
     /\ (SuperAdminEdit \/ confirmEnableNewElection) => LogsUnchanged]_vars

(* C18, amended: the only entries of actor role Super Admin in a workspace  *)
(* log are the ELECTION_RESET entries of Enable New Election, which         *)
(* prepends one to the log of its workspace and leaves the other logs       *)
(* unchanged; workspace create, workspace delete and the profile updates    *)
(* leave the log of every remaining workspace unchanged.                    *)
C18_SuperAdminLoggedOnlyByReset ==
  [][/\ \A w \in DOMAIN workspaceData' : \A i \in 1..Len(workspaceData'[w].auditLog) :
          workspaceData'[w].auditLog[i].actor.role = "Super Admin"
            => workspaceData'[w].auditLog[i].action = "ELECTION_RESET"
     /\ SuperAdminEdit => LogsUnchanged /\ WorkingLogStored'
     /\ confirmEnableNewElection =>
          \A w \in DOMAIN workspaceData' :
            IF w = confirmationModal[1].enable
            THEN /\ Tail(LogOf(workspaceData', w)) = LogOf(workspaceData, w)
                 /\ Head(LogOf(workspaceData', w)).actor.role = "Super Admin"
            ELSE LogOf(workspaceData', w) = LogOf(workspaceData, w)]_vars

\* C18 witness: the Super Admin enabled a new election on w1, created a
\* workspace and changed its own profile; the log of w1 holds the reset entry
\* and nothing of the rest.
C18_Witness ==
  /\ SuperAdminPanelShown
  /\ "w1" \in DOMAIN workspaceData /\ "w3" \in DOMAIN workspaceData
  /\ superAdminProfile = SuperAdminOf("voter")
  /\ Head(workspaceData["w1"].auditLog).actor.role = "Super Admin"
  /\ workspaceData["w3"].auditLog = <<>>


\* --------------------------------------------------------------- cloud sync
\* Saves started in one run of the page.
MaxSaves == 2

\* The latency of the mock gateway: loadData answers after FAKE_LATENCY,
\* saveData after FAKE_LATENCY / 2.
FAKE_LATENCY == 1000
\* window.setTimeout(() => setSyncStatus('idle'), 2000)
RevertMs == 2000
\* The step of the clock of the timeouts; it divides the three delays.
SyncTickMs == 500

(* cloudService.saveData(state): a promise that settles FAKE_LATENCY / 2    *)
(* after the call; the write to localStorage happens then.  n numbers the   *)
(* saves in the order they start; restore: the save of                      *)
(* handleRestoreFromJson; due: the time left until the timeout fires.       *)
saveData(state, restore) ==
  [ n |-> saveSeq + 1, payload |-> state, restore |-> restore,
    due |-> FAKE_LATENCY \div 2 ]

(* SyncTickMs pass.  A timeout that is due fires before the clock moves on. *)
Elapse ==
  /\ saveTimers # {} \/ inFlight # {} \/ revertTimers # {}
  /\ \A t \in saveTimers : t.due > 0
  /\ \A s \in inFlight : s.due > 0
  /\ \A r \in revertTimers : r.due > 0
  /\ saveTimers' = { [t EXCEPT !.due = @ - SyncTickMs] : t \in saveTimers }
  /\ inFlight' = { [s EXCEPT !.due = @ - SyncTickMs] : s \in inFlight }
  /\ revertTimers' = { [r EXCEPT !.due = @ - SyncTickMs] : r \in revertTimers }
  /\ UNCHANGED << now, appState, loginError, workspaces, superAdminProfile,
                  workspaceData, activeWorkspace, working, session, booth, panel,
                  pendingImport, settings, syncStatus, syncStatusTimer, saveSeq,
                  isInitialLoad, localStorage, backupFile,
                  restoredDocument >>

\* The callback of the debounced save effect: its timeout fires.
\* isInitialLoad is false in every render after the load.
SaveTimerFires ==
  /\ saveSeq < MaxSaves
  /\ \E t \in saveTimers :
       /\ t.due = 0
       /\ saveTimers' = saveTimers \ {t}
       /\ inFlight' = inFlight \cup { saveData(t.payload, FALSE) }
  /\ revertTimers' = { r \in revertTimers : r.n # syncStatusTimer }   \* clearTimeout
  /\ syncStatus' = "syncing"
  /\ saveSeq' = saveSeq + 1
  /\ UNCHANGED << now, appState, loginError, workspaces, superAdminProfile,
                  workspaceData, activeWorkspace, working, session, booth, panel,
                  pendingImport, settings, syncStatusTimer, isInitialLoad,
                  localStorage, backupFile,
                  restoredDocument >>

(* The timeout of the debounced save s fires and setItem succeeds: the blob *)
(* is written, then the .then of the effect runs.                           *)
saveResolved(s) ==
  /\ s \in inFlight /\ ~s.restore /\ s.due = 0
  /\ \A o \in inFlight : o.n >= s.n            \* first in, first out
  /\ localStorage' = << JSONstringify(s.payload) >>
  /\ inFlight' = inFlight \ {s}
  /\ syncStatus' = "synced"
  /\ syncStatusTimer' = s.n
  /\ revertTimers' = revertTimers \cup { [n |-> s.n, due |-> RevertMs] }
  /\ UNCHANGED << now, appState, loginError, workspaces, superAdminProfile,
                  workspaceData, activeWorkspace, working, session, booth, panel,
                  pendingImport, settings, saveTimers, saveSeq, isInitialLoad,
                  backupFile,
                  restoredDocument >>

SaveResolves == \E s \in inFlight : saveResolved(s)

(* The timeout of save s fires and JSON.stringify or setItem throws (the    *)
(* quota of localStorage): nothing is written and the promise is rejected.  *)
(* The debounced save has a .catch; the promise of a restore has no         *)
(* rejection handler.                                                       *)
saveRejected(s) ==
  /\ s \in inFlight /\ s.due = 0
  /\ \A o \in inFlight : o.n >= s.n            \* first in, first out
  /\ inFlight' = inFlight \ {s}
  /\ syncStatus' = IF s.restore THEN syncStatus ELSE "error"
  /\ UNCHANGED << now, appState, loginError, workspaces, superAdminProfile,
                  workspaceData, activeWorkspace, working, session, booth, panel,
                  pendingImport, settings, saveTimers, syncStatusTimer,
                  revertTimers, saveSeq, isInitialLoad, localStorage, backupFile,
                  restoredDocument >>

SaveRejects == \E s \in inFlight : saveRejected(s)

\* The timeout set by the .then of save n fires: () => setSyncStatus('idle').
revertTimerFired(n) ==
  /\ [n |-> n, due |-> 0] \in revertTimers
  /\ revertTimers' = revertTimers \ { [n |-> n, due |-> 0] }
  /\ syncStatus' = "idle"
  /\ UNCHANGED << now, appState, loginError, workspaces, superAdminProfile,
                  workspaceData, activeWorkspace, working, session, booth, panel,
                  pendingImport, settings, saveTimers, syncStatusTimer,
                  inFlight, saveSeq, isInitialLoad, localStorage, backupFile,
                  restoredDocument >>

RevertTimerFires == \E r \in revertTimers : revertTimerFired(r.n)

\* toggleTheme of App; every view has the button.
toggleTheme ==
  /\ PageShown
  /\ theme' = IF theme = "light" THEN "dark" ELSE "light"
  /\ UNCHANGED << now, appState, loginError, workspaces, superAdminProfile,
                  workspaceData, activeWorkspace, working, session, booth, panel,
                  pendingImport, lastBackupTimestamp, sync >>
  /\ Debounced(FALSE)

\* handleBackupToJson of App: the download, then setLastBackupTimestamp.
handleBackupToJson ==
  /\ AdminPanelShown \/ SuperAdminPanelShown
  /\ backupFile' = << JSONstringify(stateToSave) >>
  /\ lastBackupTimestamp' = now
  /\ UNCHANGED << now, appState, loginError, workspaces, superAdminProfile,
                  workspaceData, activeWorkspace, working, session, booth, panel,
                  pendingImport, theme, syncStatus, syncStatusTimer, inFlight,
                  revertTimers, saveSeq, isInitialLoad, localStorage,
                  restoredDocument >>
  /\ Debounced(FALSE)

(* The blob that the page of SpecSync is loaded from: a workspace w1 whose  *)
(* election has not started, and a workspace w2 without data.               *)
BackupFile ==
  [ theme |-> "light", workspaces |-> << "w1", "w2" >>,
    superAdminProfile |-> SeededSuperAdmin,
    workspaceData |->
      [w \in {"w1"} |->
         StoredW1(FullBallot, "NOT_STARTED", FALSE, FALSE, AdminOfW1, MaxLog - 1)],
    lastWorkspaceId |-> "w1", lastBackupTimestamp |-> NoTime ]

\* The page after the load of the blob of BackupFile.
InitSync ==
  Loaded(BackupFile.superAdminProfile, BackupFile.workspaceData["w1"],
         BackupFile.lastWorkspaceId)

\* ------------------------------------------------------------------ restore
\* The documents "Restore from Backup" is given: the last download of
\* "Backup", the backup of an earlier session, a text that is not JSON, and
\* the JSON document {}.
Documents ==
  { backupFile[i] : i \in 1..Len(backupFile) }
    \cup { JSONstringify(BackupFile), Garbage, EmptyDocument }

(* reader.onload of handleRestoreFromJson for a file with text doc, the     *)
(* user having confirmed.  A text that JSON.parse rejects sets 'error';     *)
(* whatever it accepts is handed to the gateway.  WorkspaceManager,         *)
(* AdminPanel and SuperAdminPanel have the control.                         *)
restoreOnload(doc) ==
  /\ PageShown
  /\ appState = "WORKSPACE_SELECT" \/ AdminPanelShown \/ SuperAdminPanelShown
  /\ Parseable(doc) => saveSeq < MaxSaves
  /\ syncStatus' = IF Parseable(doc) THEN "syncing" ELSE "error"
  /\ inFlight' = IF Parseable(doc)
                 THEN inFlight \cup { saveData(JSONparse(doc), TRUE) }
                 ELSE inFlight
  /\ saveSeq' = IF Parseable(doc) THEN saveSeq + 1 ELSE saveSeq
  /\ UNCHANGED << now, appState, loginError, workspaces, superAdminProfile,
                  workspaceData, activeWorkspace, working, session, booth, panel,
                  pendingImport, settings, saveTimers, syncStatusTimer,
                  revertTimers, isInitialLoad, localStorage, backupFile,
                  restoredDocument >>

RestoreOnload == \E doc \in Documents : restoreOnload(doc)

\* handleRestoreFromJson with window.confirm answered "Cancel": it returns.
restoreDeclined ==
  /\ PageShown
  /\ appState = "WORKSPACE_SELECT" \/ AdminPanelShown \/ SuperAdminPanelShown
  /\ UNCHANGED vars

(* The timeout of the save s of a restore fires and setItem succeeds; the   *)
(* .then shows the alert and calls window.location.reload().  The page      *)
(* starts again: every state cell has its initial value and the load is     *)
(* under way.  The timeouts of the old page are not cleared: the write of a *)
(* save that started after s may still happen before the page is gone, or   *)
(* may not; last is the save whose write is the last one.  The debounced    *)
(* effect of the new page sets a timeout whose callback returns at once     *)
(* (isInitialLoad) and which the load replaces; it is left out.             *)
restoreResolved(s, last) ==
  /\ s \in inFlight /\ s.restore /\ s.due = 0
  /\ \A o \in inFlight : o.n >= s.n
  /\ last \in inFlight /\ last.n >= s.n
  /\ localStorage' = << JSONstringify(last.payload) >>
  /\ isInitialLoad' = TRUE
  /\ appState' = "LOGIN"
  /\ loginError' = NoError
  /\ workspaces' = <<>>
  /\ superAdminProfile' = EmptyProfile
  /\ workspaceData' = <<>>
  /\ activeWorkspace' = Null
  /\ positions' = <<>>
  /\ candidates' = <<>>
  /\ voters' = <<>>
  /\ votes' = <<>>
  /\ electionStatus' = "NOT_STARTED"
  /\ electionDetails' = [name |-> "School Election", endTime |-> NoTime]
  /\ auditLog' = <<>>
  /\ resultsPublished' = FALSE
  /\ adminProfile' = <<>>
  /\ loggedInAdmin' = <<>>
  /\ loggedInVoter' = <<>>
  /\ loggedInSuperAdmin' = <<>>
  /\ selections' = [p \in PositionIds |-> <<>>]
  /\ showConfirmation' = FALSE
  /\ confirmationModal' = <<>>
  /\ voterToCastVoteFor' = <<>>
  /\ positionModal' = <<>>
  /\ candidateModal' = <<>> /\ voterModal' = <<>>
  /\ pendingImport' = <<>>
  /\ theme' = "light"
  /\ lastBackupTimestamp' = NoTime
  /\ syncStatus' = "idle"
  /\ syncStatusTimer' = NoTimer
  /\ inFlight' = {}
  /\ revertTimers' = {}
  /\ saveSeq' = 0
  /\ saveTimers' = {}
  /\ restoredDocument' = << s.payload >>
  /\ UNCHANGED << now, backupFile >>

RestoreResolves == \E s \in inFlight, last \in inFlight : restoreResolved(s, last)

\* --------------------------------------------------------------------- load
\* getDefaultState() of App.
getDefaultState ==
  [ workspaces |-> <<>>, superAdminProfile |-> SeededSuperAdmin,
    workspaceData |-> <<>>, theme |-> "light", lastWorkspaceId |-> Null,
    lastBackupTimestamp |-> NoTime ]

(* cloudService.loadData(): the item of localStorage parsed, or null when   *)
(* there is none or JSON.parse throws.  null is <<>>.                       *)
loadData ==
  IF localStorage = <<>> THEN <<>>
  ELSE IF Parseable(localStorage[1]) THEN << JSONparse(localStorage[1]) >>
  ELSE <<>>

\* object.name, undef standing for undefined when the object has no such key.
Field(object, name, undef) ==
  IF name \in DOMAIN object THEN object[name] ELSE undef

(* The initial load, effect 1 of App: the .then and .finally of loadData,   *)
(* the render that follows and its effects.  The documents are objects, so  *)
(* that initialState || getDefaultState() is the default exactly when       *)
(* loadData gave null.  The workspaces are their ids; lastWs is the         *)
(* workspace of the list with the id lastWorkspaceId.                       *)
loadResolved ==
  LET initialState == loadData
      state == IF initialState = <<>> THEN getDefaultState ELSE initialState[1]
      ws == Field(state, "workspaces", UndefinedList)
      lastId == Field(state, "lastWorkspaceId", Null)
      lastWs == IF lastId # Null /\ lastId \in Elements(ws) THEN lastId ELSE Null
      r == Effects([aw |-> lastWs, wd |-> Field(state, "workspaceData", UndefinedData),
                    bag |-> getDefaultWorkspaceData, app |-> "LOGIN"],
                   <<>>, TRUE, FALSE, MaxEffectRounds)
  IN /\ isInitialLoad
     /\ isInitialLoad' = FALSE
     /\ theme' = Field(state, "theme", Undefined)
     /\ workspaces' = ws
     /\ superAdminProfile' = Field(state, "superAdminProfile", UndefinedProfile)
     /\ lastBackupTimestamp' = Field(state, "lastBackupTimestamp", NoTime)
     /\ workspaceData' = r.wd
     /\ activeWorkspace' = r.aw
     /\ appState' = r.app
     /\ positions' = r.bag.positions
     /\ candidates' = r.bag.candidates
     /\ voters' = r.bag.voters
     /\ votes' = r.bag.votes
     /\ electionStatus' = r.bag.electionStatus
     /\ electionDetails' = r.bag.electionDetails
     /\ auditLog' = r.bag.auditLog
     /\ resultsPublished' = r.bag.resultsPublished
     /\ adminProfile' = r.bag.adminProfile
     /\ saveTimers' = { [payload |-> stateToSave', due |-> DebounceMs] }
     /\ restoredDocument' = <<>>
     /\ UNCHANGED << now, loginError, session, booth, panel, pendingImport,
                     syncStatus, syncStatusTimer, inFlight, revertTimers, saveSeq,
                     localStorage, backupFile >>

(* handleLogin when superAdminProfile is undefined: setLoginError(null),    *)
(* then superAdminProfile.id throws and the handler ends there.             *)
handleLoginThrows ==
  /\ PageShown /\ appState = "LOGIN"
  /\ superAdminProfile = UndefinedProfile
  /\ loginError' = NoError
  /\ UNCHANGED << now, appState, workspaces, superAdminProfile, workspaceData,
                  activeWorkspace, working, session, booth, panel,
                  pendingImport, settings, sync >>
  /\ Debounced(FALSE)

\* The admin of w1 logs in.
AdminLogin == handleLogin(AdminOfW1.id, AdminOfW1.password)

NextSync ==
  \/ AdminLogin
  \/ toggleTheme
  \/ handleBackupToJson
  \/ Elapse
  \/ SaveTimerFires
  \/ SaveResolves
  \/ SaveRejects
  \/ RevertTimerFires
  \/ RestoreOnload
  \/ restoreDeclined
  \/ RestoreResolves
  \/ loadResolved
  \/ handleLoginThrows

SpecSync == InitSync /\ [][NextSync]_vars

\* The debounced saves that a step starts.
SavesStarted == { s \in inFlight' : s.n > saveSeq /\ ~s.restore }

(* C19: changes to theme, workspaces, superAdminProfile, workspaceData,     *)
(* activeWorkspace or lastBackupTimestamp that follow each other before the *)
(* quiet period has elapsed give one call of the gateway's save, after the  *)
(* last of them and with the state after the last of them.  In every step:  *)
(* a change leaves exactly one timeout pending, that of the render after    *)
(* the change, with the whole quiet period to go; a pending timeout always  *)
(* carries the current state; and a debounced save starts only as the one   *)
(* pending timeout fires at the end of its quiet period, with the current   *)
(* state as payload and no timeout left behind.                             *)
C19_DebounceCoalesces ==
  [][ /\ stateToSave' # stateToSave /\ PageShown'
         => saveTimers' = { [payload |-> stateToSave', due |-> DebounceMs] }
      /\ Cardinality(saveTimers') <= 1
      /\ \A t \in saveTimers' : t.payload = stateToSave'
      /\ \A s \in SavesStarted :
           /\ SavesStarted = {s}
           /\ saveTimers = { [payload |-> s.payload, due |-> 0] }
           /\ s.payload = stateToSave /\ stateToSave' = stateToSave
           /\ saveTimers' = {} ]_vars

(* C19 witness: the page was loaded, an admin logged in, the theme was      *)
(* toggled and a backup was taken, all within the quiet period; the one     *)
(* save of the page is in flight and carries the state after the backup.    *)
C19_Witness ==
  /\ saveSeq = 1 /\ saveTimers = {}
  /\ theme = "dark" /\ lastBackupTimestamp # NoTime /\ loggedInAdmin # <<>>
  /\ \E s \in inFlight : inFlight = {s} /\ s.payload = stateToSave /\ ~s.restore

(* C20: the sync status is only ever updated by the result of the most      *)
(* recently started save.  When a save that is not the latest one settles   *)
(* (success or failure), or the revert-to-idle timeout of such a save       *)
(* fires, syncStatus keeps the value it has.                                *)
C20_LatestSaveOwnsStatus ==
  [][ /\ \A s \in inFlight :
           s.n # saveSeq /\ (saveResolved(s) \/ saveRejected(s))
             => syncStatus' = syncStatus
      /\ \A r \in revertTimers :
           r.n # saveSeq /\ revertTimerFired(r.n) => syncStatus' = syncStatus ]_vars

\* A step that starts a save: the debounced one or that of a restore.
SaveStarts == saveSeq' = saveSeq + 1
\* A step in which the page is reloaded; its state cells start afresh.
Reloads == isInitialLoad' /\ ~isInitialLoad

(* C21: syncStatus changes only in these ways: to 'syncing' as a save       *)
(* starts; from 'syncing' to 'synced' as a save succeeds; from 'syncing' to *)
(* 'error' as a save fails; from 'synced' to 'idle' as the revert timeout   *)
(* fires.  So 'error' stays until a save starts.  A save that settles       *)
(* leaves 'syncing' behind, the save of a restore included: when the        *)
(* latest save fails the status is 'error' afterwards.                      *)
C21_SyncStatusTransitions ==
  [][ /\ syncStatus' # syncStatus /\ ~Reloads =>
           \/ syncStatus' = "syncing" /\ SaveStarts
           \/ /\ syncStatus = "syncing" /\ syncStatus' = "synced"
              /\ \E s \in inFlight : saveResolved(s)
           \/ /\ syncStatus = "syncing" /\ syncStatus' = "error"
              /\ \E s \in inFlight : saveRejected(s)
           \/ /\ syncStatus = "synced" /\ syncStatus' = "idle"
              /\ \E r \in revertTimers : revertTimerFired(r.n)
      /\ SaveStarts => syncStatus' = "syncing"
      /\ \A s \in inFlight :
           s.n = saveSeq /\ saveRejected(s) => syncStatus' = "error" ]_vars

C23_HydrateOnWorkspaceChange ==
  [][PageShown /\ PageShown' /\ activeWorkspace' # activeWorkspace =>
       /\ CurrentBag' = IF activeWorkspace' = Null THEN getDefaultWorkspaceData
                        ELSE DataOf(workspaceData, activeWorkspace')
       /\ activeWorkspace' # Null =>
            DataOf(workspaceData', activeWorkspace') = CurrentBag']_vars

(* C23 witness: w2, which has no data, is active with the default bag while *)
(* the data of w1, left a moment ago, holds a non-empty audit log.          *)
C23_Witness ==
  /\ PageShown /\ activeWorkspace = "w2"
  /\ CurrentBag = getDefaultWorkspaceData
  /\ "w1" \in DOMAIN workspaceData /\ workspaceData["w1"].auditLog # <<>>
  /\ workspaceData["w1"].voters # <<>>

\* ------------------------------------------------------------- initial load
(* The page as it mounts, the item of the gateway being ls: every state     *)
(* cell has the initial value of its useState and the load is under way.    *)
Mounted(ls) ==
  /\ now = TickMs
  /\ localStorage = ls
  /\ isInitialLoad = TRUE
  /\ appState = "LOGIN"
  /\ loginError = NoError
  /\ workspaces = <<>>
  /\ superAdminProfile = EmptyProfile
  /\ workspaceData = <<>>
  /\ activeWorkspace = Null
  /\ positions = <<>>
  /\ candidates = <<>>
  /\ voters = <<>>
  /\ votes = <<>>
  /\ electionStatus = "NOT_STARTED"
  /\ electionDetails = [name |-> "School Election", endTime |-> NoTime]
  /\ auditLog = <<>>
  /\ resultsPublished = FALSE
  /\ adminProfile = <<>>
  /\ loggedInAdmin = <<>>
  /\ loggedInVoter = <<>>
  /\ loggedInSuperAdmin = <<>>
  /\ selections = [p \in PositionIds |-> <<>>]
  /\ showConfirmation = FALSE
  /\ confirmationModal = <<>>
  /\ voterToCastVoteFor = <<>>
  /\ positionModal = <<>>
  /\ candidateModal = <<>> /\ voterModal = <<>>
  /\ pendingImport = <<>>
  /\ theme = "light"
  /\ lastBackupTimestamp = NoTime
  /\ syncStatus = "idle"
  /\ syncStatusTimer = NoTimer
  /\ inFlight = {}
  /\ revertTimers = {}
  /\ saveSeq = 0
  /\ saveTimers = {}
  /\ backupFile = <<>>
  /\ restoredDocument = <<>>

(* What the item of the gateway may be as the page mounts: absent, a text   *)
(* that is not JSON, the JSON document {}, and a saved FullAppState.        *)
StoredItems ==
  { <<>>, << Garbage >>, << EmptyDocument >>, << JSONstringify(BackupFile) >> }

InitLoad == \E ls \in StoredItems : Mounted(ls)

NextLoad ==
  \/ loadResolved
  \/ Login
  \/ handleLoginThrows
  \/ handleFullLogout
  \/ handleWorkspaceLogout
  \/ EnterWorkspace
  \/ onReturnToSuperAdmin
  \/ handleCreateWorkspace
  \/ toggleTheme

SpecLoad == InitLoad /\ [][NextLoad]_vars

\* A document with the keys of FullAppState.
FullAppStateShaped(doc) == DOMAIN doc = DOMAIN getDefaultState

(* C24: when the load finds no item in the gateway, or an item that is not  *)
(* a well-formed FullAppState, the page is shown with the default           *)
(* FullAppState: no workspaces, the seeded Super Admin profile, no          *)
(* workspace data, theme light, no last workspace, no backup timestamp.     *)
C24_LoadFallsBackToDefaults ==
  [][ /\ isInitialLoad /\ PageShown'
      /\ loadData = <<>> \/ ~FullAppStateShaped(loadData[1])
      => /\ stateToSave' = getDefaultState
         /\ appState' = "LOGIN" ]_vars

(* C25: when the document that "Backup" produced is restored and the page   *)
(* has reloaded, the FullAppState in memory (theme, workspaces,             *)
(* superAdminProfile, workspaceData, lastWorkspaceId, lastBackupTimestamp)  *)
(* is the one the document was made from.                                   *)
C25_ExportImportRoundTrip ==
  [][ /\ isInitialLoad /\ PageShown'
      /\ backupFile # <<>>
      /\ restoredDocument = << JSONparse(backupFile[1]) >>
      => stateToSave' = JSONparse(backupFile[1]) ]_vars

\* A text that parses to an object with the keys of FullAppState.
WellFormedDocument(doc) == Parseable(doc) /\ FullAppStateShaped(JSONparse(doc))

(* C26: a restore that the user declines, and a restore of a document that  *)
(* is not JSON or is not a FullAppState, hand nothing to the gateway, leave *)
(* its item and the FullAppState in memory as they were, and the page does  *)
(* not reload: a reload only follows the restore of a well-formed document. *)
C26_ImportFailsClosed ==
  [][ /\ \A doc \in Documents :
           restoreOnload(doc) /\ ~WellFormedDocument(doc) =>
             /\ inFlight' = inFlight
             /\ localStorage' = localStorage
             /\ stateToSave' = stateToSave
      /\ Reloads => FullAppStateShaped(restoredDocument'[1]) ]_vars

(* C27: a confirmed restore of a well-formed document D leaves exactly D in *)
(* the gateway for the page that reloads, and the state in memory after the *)
(* reload is D, whatever debounced save was pending or in flight: no save   *)
(* of the state before the restore is written after D.                      *)
C27_RestoreOverwritesGateway ==
  [][ /\ Reloads /\ FullAppStateShaped(restoredDocument'[1])
         => localStorage' = << JSONstringify(restoredDocument'[1]) >>
      /\ isInitialLoad /\ PageShown' /\ restoredDocument # <<>>
         /\ FullAppStateShaped(restoredDocument[1])
         => stateToSave' = restoredDocument[1] ]_vars

\* ------------------------------------------- the admin panel: positions
\* The largest id a position of the model gets.
MaxPositionId == 3

\* String.prototype.trim on the texts the fields of the forms are given:
\* " ", " B" and "P".
trimText(text) ==
  CASE text = " " -> ""
    [] text = " B" -> "B"
    [] OTHER -> text

(* editingPosition as the form of the position modal leaves it: the name,   *)
(* the type of the radio buttons, associatedClass (null until the class     *)
(* field is typed in; it keeps its text when the type goes back to GENERAL) *)
(* and maxVotes, 0 standing for the NaN of an emptied number field.         *)
PositionForms ==
  [ name : { " ", "P" }, type : { "GENERAL", "CLASS_SPECIFIC" },
    associatedClass : { Null, " ", " B" }, maxVotes : { 0 } ]

\* openPositionModal(position): "Add Position" (null, <<>>) or the pencil of
\* a row.
openPositionModal(position) ==
  /\ AdminPanelIdle
  /\ position # <<>> => position[1] \in Elements(positions)
  /\ positionModal' = << [ position |-> position ] >>
  /\ UNCHANGED << now, appState, loginError, workspaces, superAdminProfile,
                  workspaceData, activeWorkspace, working, session, booth,
                  confirmationModal, voterToCastVoteFor,
                  candidateModal, voterModal, pendingImport,
                  settings, sync >>
  /\ Debounced(FALSE)

OpenPositionModal ==
  \E position \in { <<>> } \cup { << p >> : p \in Elements(positions) } :
    openPositionModal(position)

\* "Cancel" of the position modal.
closePositionModal ==
  /\ AdminPanelShown /\ positionModal # <<>>
  /\ positionModal' = <<>>
  /\ UNCHANGED << now, appState, loginError, workspaces, superAdminProfile,
                  workspaceData, activeWorkspace, working, session, booth,
                  confirmationModal, voterToCastVoteFor,
                  candidateModal, voterModal, pendingImport,
                  settings, sync >>
  /\ Debounced(FALSE)

\* !name?.trim() || (type === 'CLASS_SPECIFIC' && !associatedClass?.trim())
PositionRejected(form) ==
  \/ trimText(form.name) = ""
  \/ /\ form.type = "CLASS_SPECIFIC"
     /\ form.associatedClass = Null \/ trimText(form.associatedClass) = ""

\* positions.length > 0 ? Math.max(...positions.map(p => p.id)) + 1 : 1
NextPositionId(ps) ==
  IF ps = <<>> THEN 1
  ELSE (CHOOSE m \in { ps[i].id : i \in 1..Len(ps) } :
          \A i \in 1..Len(ps) : ps[i].id <= m) + 1

\* handlePositionSubmit that stores the class of the form whatever the type.
handlePositionSubmitKeepsClass(form) ==
  /\ AdminPanelShown /\ positionModal # <<>>
  /\ IF PositionRejected(form)
     THEN UNCHANGED vars
     ELSE
       LET editing == positionModal[1].position # <<>>
           finalMaxVotes == IF form.maxVotes = 0 THEN 1 ELSE form.maxVotes
           updatedPosition ==
             [ positionModal[1].position[1] EXCEPT
                 !.maxVotes = finalMaxVotes, !.type = form.type,
                 !.associatedClass = form.associatedClass ]
           newPosition ==
             [ id |-> NextPositionId(positions), type |-> form.type,
               associatedClass |-> form.associatedClass,
               maxVotes |-> finalMaxVotes ]
           bag == [ CurrentBag EXCEPT
                      !.positions =
                        IF editing
                        THEN [ i \in 1..Len(positions) |->
                                 IF positions[i].id = updatedPosition.id
                                 THEN updatedPosition ELSE positions[i] ]
                        ELSE Append(positions, newPosition),
                      !.auditLog =
                        Logged(auditLog, IF editing THEN "POSITION_UPDATED"
                                         ELSE "POSITION_CREATED") ]
       IN /\ ~editing => newPosition.id <= MaxPositionId
          /\ LogFits(bag.auditLog)
          /\ CommitBag(bag, appState)
          /\ positionModal' = <<>>
          /\ UNCHANGED << now, loginError, workspaces, superAdminProfile,
                          loggedInAdmin, loggedInVoter, booth, confirmationModal,
                          voterToCastVoteFor, candidateModal, voterModal,
                          pendingImport, settings, sync >>
          /\ Debounced(FALSE)

(* handlePositionSubmit of AdminPanel, the form holding the values of form. *)
(* A form without a name, or CLASS_SPECIFIC without a class, is refused     *)
(* with an alert and the modal stays open.  The position stored has the     *)
(* class of the form when CLASS_SPECIFIC and null otherwise; an edit        *)
(* replaces the position of the modal in the current list, a creation       *)
(* appends a position with the next id.  The name of a position is checked; *)
(* the positions of the model do not carry it.                              *)
handlePositionSubmit(form) ==
  /\ AdminPanelShown /\ positionModal # <<>>
  /\ IF PositionRejected(form)
     THEN UNCHANGED vars
     ELSE
       LET editing == positionModal[1].position # <<>>
           finalMaxVotes == IF form.maxVotes = 0 THEN 1 ELSE form.maxVotes
           finalAssociatedClass ==
             IF form.type = "CLASS_SPECIFIC" THEN form.associatedClass ELSE Null
           updatedPosition ==
             [ positionModal[1].position[1] EXCEPT
                 !.maxVotes = finalMaxVotes, !.type = form.type,
                 !.associatedClass = finalAssociatedClass ]
           newPosition ==
             [ id |-> NextPositionId(positions), type |-> form.type,
               associatedClass |-> finalAssociatedClass,
               maxVotes |-> finalMaxVotes ]
           bag == [ CurrentBag EXCEPT
                      !.positions =
                        IF editing
                        THEN [ i \in 1..Len(positions) |->
                                 IF positions[i].id = updatedPosition.id
                                 THEN updatedPosition ELSE positions[i] ]
                        ELSE Append(positions, newPosition),
                      !.auditLog =
                        Logged(auditLog, IF editing THEN "POSITION_UPDATED"
                                         ELSE "POSITION_CREATED") ]
       IN /\ ~editing => newPosition.id <= MaxPositionId
          /\ LogFits(bag.auditLog)
          /\ CommitBag(bag, appState)
          /\ positionModal' = <<>>
          /\ UNCHANGED << now, loginError, workspaces, superAdminProfile,
                          loggedInAdmin, loggedInVoter, booth, confirmationModal,
                          voterToCastVoteFor, candidateModal, voterModal,
                          pendingImport, settings, sync >>
          /\ Debounced(FALSE)

PositionSubmit == \E form \in PositionForms : handlePositionSubmit(form)

\* handleDeletePosition(id): opens the confirmation modal.  Its onConfirm
\* closes over the positions, the candidates and the addAuditLog of the
\* render of the click.
handleDeletePosition(id) ==
  /\ AdminPanelIdle
  /\ \E i \in 1..Len(positions) : positions[i].id = id
  /\ confirmationModal' = << [ position |-> id, positions |-> positions,
                               candidates |-> candidates,
                               sa |-> loggedInSuperAdmin, admin |-> loggedInAdmin,
                               voter |-> loggedInVoter ] >>
  /\ UNCHANGED << now, appState, loginError, workspaces, superAdminProfile,
                  workspaceData, activeWorkspace, working, session, booth,
                  voterToCastVoteFor, positionModal,
                  candidateModal, voterModal, pendingImport,
                  settings, sync >>
  /\ Debounced(FALSE)

DeletePosition == \E id \in 1..MaxPositionId : handleDeletePosition(id)

\* positions.filter(p => p.id !== id)
PositionsWithout(ps, id) == Filter(ps, { p \in Elements(ps) : p.id # id })
\* candidates.filter(c => c.positionId !== id)
CandidatesWithout(cs, id) == Filter(cs, { c \in Elements(cs) : c.positionId # id })

\* onConfirm of the modal opened by handleDeletePosition ("Delete").
confirmDeletePosition ==
  /\ AdminPanelShown /\ confirmationModal # <<>>
  /\ "position" \in DOMAIN confirmationModal[1]
  /\ LET m == confirmationModal[1]
         bag == [ CurrentBag EXCEPT
                    !.positions = PositionsWithout(m.positions, m.position),
                    !.candidates = CandidatesWithout(m.candidates, m.position),
                    !.auditLog = addAuditLog(auditLog, "POSITION_DELETED",
                                             m.sa, m.admin, m.voter) ]
     IN LogFits(bag.auditLog) /\ CommitBag(bag, appState)
  /\ confirmationModal' = <<>>
  /\ UNCHANGED << now, loginError, workspaces, superAdminProfile,
                  loggedInAdmin, loggedInVoter, booth, voterToCastVoteFor,
                  positionModal,
                  candidateModal, voterModal, pendingImport, settings, sync >>
  /\ Debounced(FALSE)

\* The position that the one data row of the candidates' spreadsheet names.
ImportedCandidatePosition == 1

\* handleCandidatesImport(file): starts a FileReader.  Its onload closes over
\* the candidates, the positions and the addAuditLog of the render of the call.
handleCandidatesImport ==
  /\ AdminPanelIdle
  /\ pendingImport = <<>>
  /\ pendingImport' = << [ candidates |-> candidates, positions |-> positions,
                           sa |-> loggedInSuperAdmin, admin |-> loggedInAdmin,
                           voter |-> loggedInVoter ] >>
  /\ UNCHANGED << now, appState, loginError, workspaces, superAdminProfile,
                  workspaceData, activeWorkspace, working, session, booth, panel,
                  settings, sync >>
  /\ Debounced(FALSE)

(* reader.onload of handleCandidatesImport: the row is dropped when the     *)
(* positions of the closure do not hold the position it names; otherwise a  *)
(* candidate with the id after the largest of the closure's candidates is   *)
(* appended to the current candidates (setCandidates(c => [...c, ...new])). *)
candidatesImportOnload ==
  /\ pendingImport # <<>> /\ "candidates" \in DOMAIN pendingImport[1]
  /\ LET r == pendingImport[1]
         found == \E p \in Elements(r.positions) : p.id = ImportedCandidatePosition
         lastIdNum == IF r.candidates = <<>> THEN 0
                      ELSE CHOOSE m \in { c.id : c \in Elements(r.candidates) } :
                             \A c \in Elements(r.candidates) : c.id <= m
         bag == [ CurrentBag EXCEPT
                    !.candidates =
                      IF found
                      THEN Append(candidates,
                                  Candidate(lastIdNum + 1, ImportedCandidatePosition))
                      ELSE candidates,
                    !.auditLog = addAuditLog(auditLog, "CANDIDATE_IMPORTED",
                                             r.sa, r.admin, r.voter) ]
     IN LogFits(bag.auditLog) /\ CommitBag(bag, appState)
  /\ pendingImport' = <<>>
  /\ UNCHANGED << now, loginError, workspaces, superAdminProfile,
                  loggedInAdmin, loggedInVoter, booth, panel, settings, sync >>
  /\ Debounced(FALSE)

(* The election of w1 has not started; its log has room for three entries. *)
InitPositions ==
  Loaded(SeededSuperAdmin,
         StoredW1(FullBallot, "NOT_STARTED", FALSE, FALSE, AdminOfW1, MaxLog - 3), "w1")

NextPositions ==
  \/ AdminLogin
  \/ OpenPositionModal
  \/ closePositionModal
  \/ PositionSubmit
  \/ DeletePosition
  \/ confirmDeletePosition
  \/ cancelConfirmation
  \/ handleCandidatesImport
  \/ candidatesImportOnload

SpecPositions == InitPositions /\ [][NextPositions]_vars

(* C28: confirming the deletion of position P removes P from the positions  *)
(* and removes the candidates whose positionId is P.id; every other         *)
(* position and every other candidate stays as it is.                       *)
C28_DeletePositionCascades ==
  [][confirmDeletePosition =>
       /\ positions' = PositionsWithout(positions, confirmationModal[1].position)
       /\ candidates' = CandidatesWithout(candidates, confirmationModal[1].position)]_vars

\* associatedClass is a class exactly when the type is CLASS_SPECIFIC.
ClassMatchesType(p) ==
  /\ p.type = "CLASS_SPECIFIC" => p.associatedClass # Null /\ p.associatedClass # ""
  /\ p.type = "GENERAL" => p.associatedClass = Null

(* C29: after every submission of the position form each position has a     *)
(* non-empty associatedClass when its type is CLASS_SPECIFIC and null when  *)
(* its type is GENERAL, also when the edit changed the type; a form that is *)
(* CLASS_SPECIFIC without a class leaves the positions as they are.         *)
C29_ClassMatchesType ==
  [][\A form \in PositionForms :
       handlePositionSubmit(form) =>
         /\ \A p \in Elements(positions') : ClassMatchesType(p)
         /\ form.type = "CLASS_SPECIFIC"
              /\ (form.associatedClass = Null \/ trimText(form.associatedClass) = "")
              => positions' = positions /\ positionModal' = positionModal]_vars

(* C29 witness: the class position was edited into a general one while the  *)
(* form still held its class, a class position was created, and each has    *)
(* the class its type asks for.                                             *)
C29_Witness ==
  /\ Len(positions) = 3
  /\ positions[2].id = 2 /\ positions[2].type = "GENERAL"
  /\ positions[2].associatedClass = Null
  /\ positions[3].type = "CLASS_SPECIFIC" /\ positions[3].associatedClass = " B"
  /\ auditLog # <<>> /\ Head(auditLog).action \in { "POSITION_UPDATED", "POSITION_CREATED" }

\* ---- deleting a workspace
(* C30: confirming the deletion of workspace W takes W out of the registry  *)
(* and its entry out of workspaceData, leaves every other workspace and     *)
(* every other entry as it is, and leaves no workspace active when W was    *)
(* the active one.  The entry does not come back: in every step             *)
(* workspaceData has entries only for workspaces of the registry (the       *)
(* write-back effect does not recreate the entry of a deleted workspace),   *)
(* and w1 and w2, whose ids no new workspace gets, stay out of the registry *)
(* once deleted.                                                            *)
C30_DeleteWorkspaceCascades ==
  [][ /\ confirmDeleteWorkspace =>
           LET W == confirmationModal[1].delete
           IN /\ Elements(workspaces') = Elements(workspaces) \ {W}
              /\ Len(workspaces') = Len(workspaces) - 1
              /\ DOMAIN workspaceData' = (DOMAIN workspaceData) \ {W}
              /\ \A w \in DOMAIN workspaceData' : workspaceData'[w] = workspaceData[w]
              /\ activeWorkspace' = IF activeWorkspace = W THEN Null
                                    ELSE activeWorkspace
      /\ DOMAIN workspaceData' \subseteq Elements(workspaces')
      /\ \A w \in { "w1", "w2" } :
           w \notin Elements(workspaces) => w \notin Elements(workspaces') ]_vars

(* C30 witness: w1 was deleted while it was the active workspace; no        *)
(* workspace is active, the working fields are the defaults, workspaceData  *)
(* has no entry for w1, and a workspace was created afterwards.             *)
C30_Witness ==
  /\ SuperAdminPanelShown
  /\ "w1" \notin Elements(workspaces) /\ "w1" \notin DOMAIN workspaceData
  /\ activeWorkspace = Null /\ CurrentBag = getDefaultWorkspaceData
  /\ NewWorkspace \in Elements(workspaces) /\ NewWorkspace \in DOMAIN workspaceData

\* ------------------------------ the admin panel: voters and candidates
\* The largest id a candidate of the model gets.
MaxCandidateId == 6

\* handleDeleteVoter(id): opens the confirmation modal.  Its onConfirm
\* closes over the voters and the addAuditLog of the render of the click.
handleDeleteVoter(id) ==
  /\ AdminPanelIdle
  /\ \E i \in 1..Len(voters) : voters[i].id = id
  /\ confirmationModal' = << [ deleteVoter |-> id, voters |-> voters,
                               sa |-> loggedInSuperAdmin, admin |-> loggedInAdmin,
                               voter |-> loggedInVoter ] >>
  /\ UNCHANGED << now, appState, loginError, workspaces, superAdminProfile,
                  workspaceData, activeWorkspace, working, session, booth,
                  voterToCastVoteFor, positionModal, candidateModal, voterModal,
                  pendingImport, settings, sync >>
  /\ Debounced(FALSE)

DeleteVoter == \E id \in VoterIds : handleDeleteVoter(id)

\* voters.filter(v => v.id !== id)
VotersWithout(vs, id) == Filter(vs, { v \in Elements(vs) : v.id # id })

\* onConfirm of the modal opened by handleDeleteVoter ("Delete"): the voter
\* goes, the votes stay.
confirmDeleteVoter ==
  /\ AdminPanelShown /\ confirmationModal # <<>>
  /\ "deleteVoter" \in DOMAIN confirmationModal[1]
  /\ LET m == confirmationModal[1]
         bag == [ CurrentBag EXCEPT
                    !.voters = VotersWithout(m.voters, m.deleteVoter),
                    !.auditLog = addAuditLog(auditLog, "VOTER_DELETED",
                                             m.sa, m.admin, m.voter) ]
     IN LogFits(bag.auditLog) /\ CommitBag(bag, appState)
  /\ confirmationModal' = <<>>
  /\ UNCHANGED << now, loginError, workspaces, superAdminProfile,
                  loggedInAdmin, loggedInVoter, booth, voterToCastVoteFor,
                  positionModal, candidateModal, voterModal, pendingImport,
                  settings, sync >>
  /\ Debounced(FALSE)

\* handleDeleteCandidate(id): opens the confirmation modal.  Its onConfirm
\* closes over the candidates and the addAuditLog of the render of the click.
handleDeleteCandidate(id) ==
  /\ AdminPanelIdle
  /\ \E i \in 1..Len(candidates) : candidates[i].id = id
  /\ confirmationModal' = << [ candidate |-> id, candidates |-> candidates,
                               sa |-> loggedInSuperAdmin, admin |-> loggedInAdmin,
                               voter |-> loggedInVoter ] >>
  /\ UNCHANGED << now, appState, loginError, workspaces, superAdminProfile,
                  workspaceData, activeWorkspace, working, session, booth,
                  voterToCastVoteFor, positionModal, candidateModal, voterModal,
                  pendingImport, settings, sync >>
  /\ Debounced(FALSE)

DeleteCandidate == \E id \in 1..MaxCandidateId : handleDeleteCandidate(id)

\* onConfirm of the modal opened by handleDeleteCandidate ("Delete"):
\* setCandidates(candidates.filter(c => c.id !== id)); the votes stay.
confirmDeleteCandidate ==
  /\ AdminPanelShown /\ confirmationModal # <<>>
  /\ "candidate" \in DOMAIN confirmationModal[1]
  /\ LET m == confirmationModal[1]
         bag == [ CurrentBag EXCEPT
                    !.candidates = Filter(m.candidates,
                                          { c \in Elements(m.candidates) :
                                              c.id # m.candidate }),
                    !.auditLog = addAuditLog(auditLog, "CANDIDATE_DELETED",
                                             m.sa, m.admin, m.voter) ]
     IN LogFits(bag.auditLog) /\ CommitBag(bag, appState)
  /\ confirmationModal' = <<>>
  /\ UNCHANGED << now, loginError, workspaces, superAdminProfile,
                  loggedInAdmin, loggedInVoter, booth, voterToCastVoteFor,
                  positionModal, candidateModal, voterModal, pendingImport,
                  settings, sync >>
  /\ Debounced(FALSE)

\* openCandidateModal(candidate): "Add Candidate" (null, <<>>) or the pencil
\* of a row.
openCandidateModal(candidate) ==
  /\ AdminPanelIdle
  /\ candidate # <<>> => candidate[1] \in Elements(candidates)
  /\ candidateModal' = << [ candidate |-> candidate ] >>
  /\ UNCHANGED << now, appState, loginError, workspaces, superAdminProfile,
                  workspaceData, activeWorkspace, working, session, booth,
                  confirmationModal, voterToCastVoteFor, positionModal,
                  voterModal, pendingImport, settings, sync >>
  /\ Debounced(FALSE)

OpenCandidateModal ==
  \E candidate \in { <<>> } \cup { << c >> : c \in Elements(candidates) } :
    openCandidateModal(candidate)

\* "Cancel" of the candidate modal.
closeCandidateModal ==
  /\ AdminPanelShown /\ candidateModal # <<>>
  /\ candidateModal' = <<>>
  /\ UNCHANGED << now, appState, loginError, workspaces, superAdminProfile,
                  workspaceData, activeWorkspace, working, session, booth,
                  confirmationModal, voterToCastVoteFor, positionModal,
                  voterModal, pendingImport, settings, sync >>
  /\ Debounced(FALSE)

(* editingCandidate as the form of the candidate modal leaves it: the name  *)
(* and the positionId of the select, 0 for the Number('') of "Select        *)
(* Position".                                                               *)
CandidateForms == [ name : { "", "C" }, positionId : { 0, 1, 2 } ]

\* candidates.length > 0 ? Math.max(...candidates.map(c => c.id)) + 1 : 1
NextCandidateId(cs) ==
  IF cs = <<>> THEN 1
  ELSE (CHOOSE m \in { cs[i].id : i \in 1..Len(cs) } :
          \A i \in 1..Len(cs) : cs[i].id <= m) + 1

(* handleCandidateSubmit of AdminPanel, the form holding the values of      *)
(* form.  A form without a name or a position is refused with an alert and  *)
(* the modal stays open.  An edit merges the form into the candidate of the *)
(* modal in the current list; a creation appends a candidate with the next  *)
(* id.  The candidates of the model carry their id and positionId only.     *)
handleCandidateSubmit(form) ==
  /\ AdminPanelShown /\ candidateModal # <<>>
  /\ IF form.name = "" \/ form.positionId = 0
     THEN UNCHANGED vars
     ELSE
       LET editing == candidateModal[1].candidate # <<>>
           newCandidate == Candidate(NextCandidateId(candidates), form.positionId)
           bag == [ CurrentBag EXCEPT
                      !.candidates =
                        IF editing
                        THEN [ i \in 1..Len(candidates) |->
                                 IF candidates[i].id = candidateModal[1].candidate[1].id
                                 THEN [ candidates[i] EXCEPT
                                          !.positionId = form.positionId ]
                                 ELSE candidates[i] ]
                        ELSE Append(candidates, newCandidate),
                      !.auditLog =
                        Logged(auditLog, IF editing THEN "CANDIDATE_UPDATED"
                                         ELSE "CANDIDATE_CREATED") ]
       IN /\ ~editing => newCandidate.id <= MaxCandidateId
          /\ LogFits(bag.auditLog)
          /\ CommitBag(bag, appState)
          /\ candidateModal' = <<>>
          /\ UNCHANGED << now, loginError, workspaces, superAdminProfile,
                          loggedInAdmin, loggedInVoter, booth, confirmationModal,
                          voterToCastVoteFor, positionModal, voterModal,
                          pendingImport, settings, sync >>
          /\ Debounced(FALSE)

CandidateSubmit == \E form \in CandidateForms : handleCandidateSubmit(form)

(* The election of w1 is in progress and Voter1 has voted, for candidate 1  *)
(* of position 1 and candidate 4 of position 2; the log has room for three  *)
(* entries.                                                                 *)
InitRoster ==
  Loaded(SeededSuperAdmin,
         StoredW1(FullBallot, "IN_PROGRESS", FALSE, TRUE, AdminOfW1, MaxLog - 3), "w1")

NextRoster ==
  \/ AdminLogin
  \/ DeleteVoter
  \/ confirmDeleteVoter
  \/ DeleteCandidate
  \/ confirmDeleteCandidate
  \/ DeletePosition
  \/ confirmDeletePosition
  \/ cancelConfirmation
  \/ OpenCandidateModal
  \/ closeCandidateModal
  \/ CandidateSubmit

SpecRoster == InitRoster /\ [][NextRoster]_vars

(* C31, as stated: every Vote row names an existing voter, an existing      *)
(* candidate and an existing position, and the position is the candidate's. *)
C31_VotesReferToExistingRows ==
  \A v \in Elements(votes) :
    /\ \E x \in Elements(voters) : x.id = v.voterId
    /\ \E c \in Elements(candidates) :
         c.id = v.candidateId /\ c.positionId = v.positionId
    /\ \E p \in Elements(positions) : p.id = v.positionId

\* ---- the Super Admin console
(* C32, as stated: no Super Admin session is set while the login screen is  *)
(* shown, and a login that resolves to the admin or to a voter (credentials *)
(* that are not the Super Admin's) leaves the app without a Super Admin     *)
(* session, the session that offers "Return to Super Admin" in AdminPanel   *)
(* and renders SUPER_ADMIN_VIEW.                                            *)
C32_SuperAdminOnlyByCredentials ==
  [][ /\ PageShown' /\ appState' = "LOGIN" => loggedInSuperAdmin' = <<>>
      /\ \A cred \in LoginInputs :
           /\ handleLogin(cred[1], cred[2])
           /\ ResolveLogin(cred[1], cred[2]).kind \in { "ADMIN", "VOTER" }
           => loggedInSuperAdmin' = <<>> ]_vars

\* ------------------------------------- the admin panel: the manual vote
(* AdminVoteModal is mounted while voterToCastVoteFor is set.  It keeps a   *)
(* selections and a showConfirmation of its own, as VotingBooth does; the   *)
(* two are never mounted together, and the variables selections and         *)
(* showConfirmation hold the state of whichever is mounted.                 *)
AdminVoteModalShown == AdminPanelShown /\ voterToCastVoteFor # <<>>

\* A "Cast Vote for Voter" button that is enabled for every voter.
setVoterToCastVoteForAnyVoter(v) ==
  /\ AdminPanelIdle
  /\ v \in Elements(voters)
  /\ voterToCastVoteFor' = << v >>
  /\ NoBooth
  /\ UNCHANGED << now, appState, loginError, workspaces, superAdminProfile,
                  workspaceData, activeWorkspace, working, session,
                  confirmationModal, positionModal, candidateModal, voterModal,
                  pendingImport, settings, sync >>
  /\ Debounced(FALSE)

\* setVoterToCastVoteFor(v): the "Cast Vote for Voter" button of a row of the
\* voters table, disabled when v.hasVoted.  The modal mounts with no
\* selection.
setVoterToCastVoteFor(v) ==
  /\ AdminPanelIdle
  /\ v \in Elements(voters) /\ ~v.hasVoted
  /\ voterToCastVoteFor' = << v >>
  /\ NoBooth
  /\ UNCHANGED << now, appState, loginError, workspaces, superAdminProfile,
                  workspaceData, activeWorkspace, working, session,
                  confirmationModal, positionModal, candidateModal, voterModal,
                  pendingImport, settings, sync >>
  /\ Debounced(FALSE)

CastVoteFor == \E v \in Elements(voters) : setVoterToCastVoteFor(v)

\* handleSelect of AdminVoteModal: a click on a candidate card; the modal
\* lists every position with its candidates.
adminVoteSelect(positionId, candidateId) ==
  /\ AdminVoteModalShown /\ ~showConfirmation
  /\ \E p \in Elements(positions) :
       /\ p.id = positionId
       /\ \E c \in Elements(candidates) : c.id = candidateId /\ c.positionId = p.id
       /\ selections' = [selections EXCEPT ![positionId] =
                           newSelections(selections[positionId], candidateId, maxVotesOf(p))]
  /\ UNCHANGED << now, appState, loginError, workspaces, superAdminProfile,
                  workspaceData, activeWorkspace, working, session,
                  showConfirmation, panel, pendingImport, settings, sync >>
  /\ Debounced(FALSE)

AdminVoteSelect ==
  \E positionId \in PositionIds, candidateId \in 1..5 :
    adminVoteSelect(positionId, candidateId)

\* handleSubmit of AdminVoteModal: "Submit Vote", disabled unless every
\* position has a selection.
adminVoteSubmit ==
  /\ AdminVoteModalShown /\ ~showConfirmation
  /\ isVoteComplete(positions, selections)
  /\ showConfirmation' = TRUE
  /\ UNCHANGED << now, appState, loginError, workspaces, superAdminProfile,
                  workspaceData, activeWorkspace, working, session, selections,
                  panel, pendingImport, settings, sync >>
  /\ Debounced(FALSE)

\* "Cancel" of the modal's confirmation dialog.
adminVoteCancelConfirmation ==
  /\ AdminVoteModalShown /\ showConfirmation
  /\ showConfirmation' = FALSE
  /\ UNCHANGED << now, appState, loginError, workspaces, superAdminProfile,
                  workspaceData, activeWorkspace, working, session, selections,
                  panel, pendingImport, settings, sync >>
  /\ Debounced(FALSE)

\* onClose of AdminVoteModal (its "Cancel", or a click beside the dialog):
\* setVoterToCastVoteFor(null).
adminVoteClose ==
  /\ AdminVoteModalShown
  /\ voterToCastVoteFor' = <<>>
  /\ NoBooth
  /\ UNCHANGED << now, appState, loginError, workspaces, superAdminProfile,
                  workspaceData, activeWorkspace, working, session,
                  confirmationModal, positionModal, candidateModal, voterModal,
                  pendingImport, settings, sync >>
  /\ Debounced(FALSE)

(* handleAdminManualVote(selections), called by confirmVote of the modal:   *)
(* one Vote row per selected candidate in the name of voterToCastVoteFor,   *)
(* hasVoted set on the voter of that id, one VOTE_CAST entry, and the modal *)
(* closes.  Neither the election status nor the voter's isBlocked is read.  *)
handleAdminManualVote ==
  /\ AdminVoteModalShown /\ showConfirmation
  /\ LET voter == voterToCastVoteFor[1]
         bag == [CurrentBag EXCEPT
                   !.votes = votes \o newVotes(voter.id, selections),
                   !.voters = SetHasVoted(voters, voter.id, TRUE),
                   !.auditLog = Logged(auditLog, "VOTE_CAST")]
     IN /\ LogFits(bag.auditLog)
        /\ Len(bag.votes) <= MaxVoteRows
        /\ CommitBag(bag, appState)
  /\ voterToCastVoteFor' = <<>>
  /\ NoBooth
  /\ UNCHANGED << now, loginError, workspaces, superAdminProfile, loggedInAdmin,
                  loggedInVoter, confirmationModal, positionModal,
                  candidateModal, voterModal, pendingImport, settings, sync >>
  /\ Debounced(FALSE)

\* ------------------------------------- the admin panel: the voter form
\* Most voters a workspace of the model holds.
MaxVoters == 3

\* openVoterModal(voter): "Add Voter" (null, <<>>) or the pencil of a row;
\* editingVoter starts as a copy of the voter.
openVoterModal(voter) ==
  /\ AdminPanelIdle
  /\ voter # <<>> => voter[1] \in Elements(voters)
  /\ voterModal' = << [ voter |-> voter ] >>
  /\ UNCHANGED << now, appState, loginError, workspaces, superAdminProfile,
                  workspaceData, activeWorkspace, working, session, booth,
                  confirmationModal, voterToCastVoteFor, positionModal,
                  candidateModal, pendingImport, settings, sync >>
  /\ Debounced(FALSE)

OpenVoterModal ==
  \E voter \in { <<>> } \cup { << v >> : v \in Elements(voters) } :
    openVoterModal(voter)

\* "Cancel" of the voter modal.
closeVoterModal ==
  /\ AdminPanelShown /\ voterModal # <<>>
  /\ voterModal' = <<>>
  /\ UNCHANGED << now, appState, loginError, workspaces, superAdminProfile,
                  workspaceData, activeWorkspace, working, session, booth,
                  confirmationModal, voterToCastVoteFor, positionModal,
                  candidateModal, pendingImport, settings, sync >>
  /\ Debounced(FALSE)

(* What the admin leaves in the name, class and roll number fields; random  *)
(* is the text Math.random().toString(36).substring(2, 6) yields.  The      *)
(* specifications create at most one voter beyond the seeded ones, so the   *)
(* suffix never meets itself and the ids of the voters stay distinct.       *)
VoterForms == [ name : { "", "N" }, class : { "A", "B" }, rollNo : { "7" },
                random : { "k" } ]

(* handleVoterSubmit of AdminPanel.  A form without name, class or roll     *)
(* number is refused with an alert.  An edit replaces the voter of the      *)
(* modal, in the current list, by { ...v, ...editingVoter }: editingVoter   *)
(* is the copy taken when the modal opened with the fields of the form      *)
(* typed over it, so every field comes from the copy or from the form.  A   *)
(* creation appends a voter whose id is made of the class in lower case,    *)
(* the roll number and the random text, whose password is the roll number,  *)
(* and who has not voted and is not blocked.                                *)
handleVoterSubmit(form) ==
  /\ AdminPanelShown /\ voterModal # <<>>
  /\ IF form.name = ""
     THEN UNCHANGED vars
     ELSE
       LET editing == voterModal[1].voter # <<>>
           editingVoter == [ voterModal[1].voter[1] EXCEPT
                               !.class = form.class, !.rollNo = form.rollNo ]
           newVoter == [ id |-> << LowerChar(form.class), "-", form.rollNo, "-",
                                   form.random >>,
                         class |-> form.class, rollNo |-> form.rollNo,
                         password |-> form.rollNo,
                         hasVoted |-> FALSE, isBlocked |-> FALSE ]
           bag == [ CurrentBag EXCEPT
                      !.voters =
                        IF editing
                        THEN [ i \in 1..Len(voters) |->
                                 IF voters[i].id = voterModal[1].voter[1].id
                                 THEN editingVoter ELSE voters[i] ]
                        ELSE Append(voters, newVoter),
                      !.auditLog =
                        Logged(auditLog, IF editing THEN "VOTER_UPDATED"
                                         ELSE "VOTER_CREATED") ]
       IN /\ ~editing => Len(voters) < MaxVoters
          /\ LogFits(bag.auditLog)
          /\ CommitBag(bag, appState)
          /\ voterModal' = <<>>
          /\ UNCHANGED << now, loginError, workspaces, superAdminProfile,
                          loggedInAdmin, loggedInVoter, booth, confirmationModal,
                          voterToCastVoteFor, positionModal, candidateModal,
                          pendingImport, settings, sync >>
          /\ Debounced(FALSE)

VoterSubmit == \E form \in VoterForms : handleVoterSubmit(form)

(* The manual vote alone.  The election of w1 is in any status, Voter1 is   *)
(* blocked or not, nobody has voted.                                        *)
InitManualVote ==
  \E status \in Statuses, blocked \in BOOLEAN :
    Loaded(SeededSuperAdmin,
           StoredW1(FullBallot, status, blocked, FALSE, AdminOfW1, MaxLog - 3), "w1")

NextManualVote ==
  \/ AdminLogin
  \/ CastVoteFor
  \/ AdminVoteSelect
  \/ adminVoteSubmit
  \/ adminVoteCancelConfirmation
  \/ adminVoteClose
  \/ handleAdminManualVote

SpecManualVote == InitManualVote /\ [][NextManualVote]_vars

(* Ballots from the booth and from the admin panel, with the admin's work   *)
(* on the voters in between.  The election of w1 is in progress, its ballot *)
(* is the one without the general position, nobody has voted, and the log   *)
(* has room for four entries.                                               *)
InitBallots ==
  Loaded(SeededSuperAdmin,
         StoredW1(ClassOnlyBallot, "IN_PROGRESS", FALSE, FALSE, AdminOfW1, MaxLog - 4),
         "w1")

\* The accounts of w1: the admin and the two voters.
BallotsLogin ==
  \E cred \in { << <<"a">>, "admin1" >>, << <<"v">>, "roll01" >>,
                << <<"u">>, "2" >> } :
    handleLogin(cred[1], cred[2])

NextBallots ==
  \/ BallotsLogin
  \/ handleWorkspaceLogout
  \/ BoothSelect
  \/ handleSubmit
  \/ cancelVote
  \/ handleVote
  \/ CastVoteFor
  \/ AdminVoteSelect
  \/ adminVoteSubmit
  \/ adminVoteCancelConfirmation
  \/ adminVoteClose
  \/ handleAdminManualVote
  \/ OpenVoterModal
  \/ closeVoterModal
  \/ VoterSubmit
  \/ ToggleVoterBlock
  \/ ResetVoterVote
  \/ confirmResetVoterVote
  \/ cancelConfirmation

SpecBallots == InitBallots /\ [][NextBallots]_vars

\* The Vote rows a step appends.
NewRows == { votes'[i] : i \in (Len(votes) + 1)..Len(votes') }

(* C33, as stated: a step that appends Vote rows is taken while the         *)
(* election is IN_PROGRESS, and the voter the rows are for is not blocked.  *)
C33_VotesOnlyWhileInProgress ==
  [][Len(votes') > Len(votes) =>
       /\ electionStatus = "IN_PROGRESS"
       /\ \A row \in NewRows : \A v \in Elements(voters) :
            v.id = row.voterId => ~v.isBlocked]_vars

\* Some voter who had cast a ballot is back to hasVoted = false.
VoteReopened ==
  \E i \in 1..Len(voters) :
    /\ i <= Len(voters')
    /\ voters'[i].id = voters[i].id
    /\ voters[i].hasVoted /\ ~voters'[i].hasVoted

(* C34: a voter casts at most one ballot per election cycle.  A step that   *)
(* adds Vote rows (handleVote, handleAdminManualVote) adds them for a voter *)
(* who has no Vote row yet and whose hasVoted is false, and leaves hasVoted *)
(* true; hasVoted returns to false only by the reset of the voter's vote,   *)
(* whatever logins, logouts, voter edits, blocks and manual votes come in   *)
(* between.                                                                 *)
C34_OneBallotPerCycle ==
  [][ /\ \A row \in NewRows :
           /\ \A old \in Elements(votes) : old.voterId # row.voterId
           /\ \A v \in Elements(voters) : v.id = row.voterId => ~v.hasVoted
           /\ \A v \in Elements(voters') : v.id = row.voterId => v.hasVoted
      /\ VoteReopened => confirmResetVoterVote ]_vars

\* Both voters have cast their ballot, one at the booth and one through the
\* admin, and the admin panel offers no further ballot for either.
C34_Witness ==
  /\ AdminPanelShown
  /\ \A v \in Elements(voters) : v.hasVoted
  /\ \E r \in Elements(votes) : r.voterId = Voter1.id
  /\ \E r \in Elements(votes) : r.voterId = Voter2.id
  /\ \E e \in Elements(auditLog) : e.action = "VOTER_LOGIN_SUCCESS"

(* C35: class eligibility of votes.  Every Vote row a step adds for a       *)
(* CLASS_SPECIFIC position belongs to a voter whose class is that           *)
(* position's associatedClass when the ballot is cast, from the booth or    *)
(* from the admin's manual vote.                                            *)
C35_VotesOnlyForOwnClass ==
  [][\A row \in NewRows :
       \A p \in Elements(positions) : \A v \in Elements(voters) :
         /\ p.id = row.positionId /\ p.type = "CLASS_SPECIFIC"
         /\ v.id = row.voterId
         => v.class = p.associatedClass]_vars

\* voteCounts of AdminPanel: for a candidate of the list, the Vote rows that
\* carry its id.
voteCounts(cs, vs, id) ==
  IF \E c \in Elements(cs) : c.id = id
  THEN Cardinality({ i \in 1..Len(vs) : vs[i].candidateId = id })
  ELSE 0

(* C36: a newly created candidate or position starts with no votes.  When a *)
(* step appends a candidate, or a position, the id it got (highest id + 1,  *)
(* or 1) is the candidateId, or the positionId, of no Vote row, and the     *)
(* tally voteCounts of the new candidate is 0.                              *)
C36_NewRowsStartWithoutVotes ==
  [][ /\ Len(candidates') = Len(candidates) + 1 =>
           LET new == candidates'[Len(candidates')]
           IN /\ \A v \in Elements(votes') : v.candidateId # new.id
              /\ voteCounts(candidates', votes', new.id) = 0
      /\ Len(positions') = Len(positions) + 1 =>
           \A v \in Elements(votes') :
             v.positionId # positions'[Len(positions')].id ]_vars

\* ------------------------------------------------ the public results view
\* resultsButtonState that offers the button for any ended election.
resultsButtonStateWhenEnded == electionStatus = "ENDED"

\* resultsButtonState of UnifiedLoginScreen: not null, the button is shown.
resultsButtonState == electionStatus = "ENDED" /\ resultsPublished

\* "View Final Results" is on the page.
ResultsButtonOffered == PageShown /\ appState = "LOGIN" /\ resultsButtonState

(* onViewResults of the login screen: setAppState('PUBLIC_RESULTS').        *)
(* Without an active workspace the render of PUBLIC_RESULTS calls           *)
(* handleSwitchToWorkspaceSelect and shows nothing.                         *)
onViewResults ==
  /\ ResultsButtonOffered
  /\ IF activeWorkspace = Null
     THEN /\ loggedInAdmin' = <<>> /\ loggedInVoter' = <<>>
          /\ Commit(Null, workspaceData, FALSE, CurrentBag, "WORKSPACE_SELECT",
                    loggedInSuperAdmin)
     ELSE /\ CommitBag(CurrentBag, "PUBLIC_RESULTS")
          /\ UNCHANGED << loggedInAdmin, loggedInVoter >>
  /\ UNCHANGED << now, loginError, workspaces, superAdminProfile, booth, panel,
                  pendingImport, settings, sync >>
  /\ Debounced(FALSE)

\* PublicResults is rendered (renderContent, case PUBLIC_RESULTS).
PublicResultsShown ==
  PageShown /\ appState = "PUBLIC_RESULTS" /\ activeWorkspace # Null

\* What PublicResults renders: the winners with their votes, or the notice.
PublicResultsView ==
  IF electionStatus = "ENDED" /\ resultsPublished
  THEN "Final Results" ELSE "Results Not Yet Published"

\* onBack of PublicResults: setAppState('LOGIN').
onBack ==
  /\ PublicResultsShown
  /\ CommitBag(CurrentBag, "LOGIN")
  /\ UNCHANGED << now, loginError, workspaces, superAdminProfile,
                  loggedInAdmin, loggedInVoter, booth, panel, pendingImport,
                  settings, sync >>
  /\ Debounced(FALSE)

(* The election of w1 has ended and its results are not published; the log *)
(* has room for three entries.  The admin publishes and hides the results,  *)
(* the Super Admin enables a new election, visitors open the results.       *)
InitPublicResults ==
  Loaded(SeededSuperAdmin,
         StoredW1(FullBallot, "ENDED", FALSE, FALSE, AdminOfW1, MaxLog - 3), "w1")

NextPublicResults ==
  \/ ControllerLogin
  \/ handleWorkspaceLogout
  \/ handleFullLogout
  \/ handleSwitchToWorkspaceSelect
  \/ WorkspaceSelected
  \/ EnterWorkspace
  \/ onReturnToSuperAdmin
  \/ handlePublishResults
  \/ confirmPublishResults
  \/ cancelConfirmation
  \/ EnableNewElectionRequest
  \/ confirmEnableNewElection
  \/ onViewResults
  \/ onBack

SpecPublicResults == InitPublicResults /\ [][NextPublicResults]_vars

\* The stored election of the active workspace has ended and its results
\* are published.
ActiveEndedAndPublished ==
  /\ activeWorkspace # Null
  /\ DataOf(workspaceData, activeWorkspace).electionStatus = "ENDED"
  /\ DataOf(workspaceData, activeWorkspace).resultsPublished

(* C37: the public results view shows the winners and their tallies only    *)
(* when the election of the active workspace is ENDED and resultsPublished  *)
(* is true, and it is opened only then; in every other state the view shows *)
(* the notice and the login screen offers no results button.                *)
C37_ResultsOnlyWhenPublished ==
  /\ PublicResultsShown =>
       /\ PublicResultsView = "Final Results" <=> ActiveEndedAndPublished
       /\ ~ActiveEndedAndPublished =>
            PublicResultsView = "Results Not Yet Published"
  /\ PageShown /\ appState = "LOGIN" =>
       (ResultsButtonOffered <=> ActiveEndedAndPublished)

\* A visitor looks at the final results of w1 ...
C37_Witness ==
  /\ PublicResultsShown /\ PublicResultsView = "Final Results"
  /\ activeWorkspace = "w1"
  /\ \E e \in Elements(auditLog) : e.action = "RESULTS_PUBLISHED"

\* ------------------------------------------------------ workspace isolation
(* Two workspaces with an election each: w1, stored, and the workspace the  *)
(* Super Admin creates.  Their admins and the Super Admin log in and out,   *)
(* switch the workspace from the login screen and from the console, and    *)
(* start and end the election of the workspace they are in.                 *)
InitIsolation ==
  Loaded(SeededSuperAdmin,
         StoredW1(FullBallot, "NOT_STARTED", FALSE, FALSE, AdminOfW1, MaxLog - 2),
         "w1")

IsolationLogin ==
  \E cred \in { << <<"s">>, "super123" >>, << <<"a">>, "admin1" >>,
                << <<"n">>, "gen123" >> } :
    handleLogin(cred[1], cred[2])

NextIsolation ==
  \/ IsolationLogin
  \/ handleWorkspaceLogout
  \/ handleFullLogout
  \/ handleSwitchToWorkspaceSelect
  \/ WorkspaceSelected
  \/ onGoBack
  \/ EnterWorkspace
  \/ onReturnToSuperAdmin
  \/ handleCreateWorkspace
  \/ StartElection
  \/ EndElection

SpecIsolation == InitIsolation /\ [][NextIsolation]_vars

(* C38: workspace isolation.  A step that changes working fields while      *)
(* workspace A is active changes the bag of no other workspace B (but for   *)
(* the bag "Create Workspace" makes for the new workspace), and a step that *)
(* switches the active workspace (to another one, or to none) changes no    *)
(* bag at all: the values of A are never written into the bag of B.         *)
C38_WorkspaceIsolation ==
  [][PageShown /\ PageShown' =>
       /\ \A B \in WorkspaceIds :
            B # activeWorkspace /\ ~(handleCreateWorkspace /\ B = NewWorkspace)
            => DataOf(workspaceData', B) = DataOf(workspaceData, B)
       /\ activeWorkspace' # activeWorkspace =>
            \A B \in WorkspaceIds :
              DataOf(workspaceData', B) = DataOf(workspaceData, B)]_vars

\* The Super Admin started the election of the new workspace, and w1, whose
\* election was started before, is the active workspace again.
C38_Witness ==
  /\ PageShown /\ activeWorkspace = "w1" /\ electionStatus = "IN_PROGRESS"
  /\ CurrentBag = workspaceData["w1"]
  /\ NewWorkspace \in DOMAIN workspaceData
  /\ workspaceData[NewWorkspace].electionStatus = "ENDED"
  /\ workspaceData[NewWorkspace].adminProfile = << NewAdminProfile >>

\* ------------------------------------ the hydrate and write-back effects
\* A render with workspaceData wd and the working fields of bag, the
\* workspace, the page and the sessions being those of the render before.
Rendered(wd, bag) ==
  /\ workspaceData' = wd
  /\ positions' = bag.positions
  /\ candidates' = bag.candidates
  /\ voters' = bag.voters
  /\ votes' = bag.votes
  /\ electionStatus' = bag.electionStatus
  /\ electionDetails' = bag.electionDetails
  /\ adminProfile' = bag.adminProfile
  /\ auditLog' = bag.auditLog
  /\ resultsPublished' = bag.resultsPublished
  /\ UNCHANGED << activeWorkspace, appState, loggedInSuperAdmin >>

\* The fixpoint of the two effects: the working fields are the bag stored
\* for the active workspace.
EffectsSettled ==
  PageShown /\ activeWorkspace # Null =>
    DataOf(workspaceData, activeWorkspace) = CurrentBag

(* reader.onload of handleVotersImport, run between the write-back of a     *)
(* click on "Block" / "Unblock" and the render of the setWorkspaceData that *)
(* write-back queued.  The click is rendered and its effects run at once:   *)
(* the write-back queues prev => { ...prev, [id]: bag1 }, to be rendered in *)
(* a later task.  The file is read before that task: onload queues          *)
(* setVoters(v => [...v, ...newVoters]) and the log entry, and the next     *)
(* render takes both updates: workspaceData holds bag1, the working fields  *)
(* are bag2, and the dependencies of both effects have changed.             *)
votersImportOnloadAfterToggle(id) ==
  /\ AdminPanelIdle /\ EffectsSettled
  /\ pendingImport # <<>> /\ "voters" \in DOMAIN pendingImport[1]
  /\ \E i \in 1..Len(voters) :
       /\ voters[i].id = id /\ \A j \in 1..(i - 1) : voters[j].id # id
       /\ LET r == pendingImport[1]
              duplicate == \E v \in Elements(r.voters) :
                             /\ v.class = ImportedVoter.class
                             /\ v.rollNo = ImportedVoter.rollNo
              bag1 == [CurrentBag EXCEPT
                         !.voters = [j \in 1..Len(voters) |->
                                       IF voters[j].id = id
                                       THEN [voters[j] EXCEPT
                                               !.isBlocked = ~voters[j].isBlocked]
                                       ELSE voters[j]],
                         !.auditLog = Logged(auditLog,
                                             IF voters[i].isBlocked
                                             THEN "VOTER_UNBLOCKED"
                                             ELSE "VOTER_BLOCKED")]
              bag2 == [bag1 EXCEPT
                         !.voters = IF duplicate THEN bag1.voters
                                    ELSE Append(bag1.voters, ImportedVoter),
                         !.auditLog = addAuditLog(bag1.auditLog, "VOTER_IMPORTED",
                                                  r.sa, r.admin, r.voter)]
          IN /\ LogFits(bag2.auditLog)
             /\ Rendered(Put(workspaceData, activeWorkspace, bag1), bag2)
  /\ pendingImport' = <<>>
  /\ UNCHANGED << now, loginError, workspaces, superAdminProfile,
                  loggedInAdmin, loggedInVoter, booth, panel, settings, sync >>
  /\ Debounced(FALSE)

VotersImportOnloadAfterToggle ==
  \E id \in VoterIds : votersImportOnloadAfterToggle(id)

(* The effects of a render in which workspaceData and working fields have   *)
(* both changed, and the render of what they set: the hydrate effect reads  *)
(* the stored bag into the working fields, the write-back effect stores the *)
(* working fields of that render.                                           *)
effectsRound ==
  /\ ~EffectsSettled
  /\ LET s == Effects([aw |-> activeWorkspace, wd |-> workspaceData,
                       bag |-> CurrentBag, app |-> appState],
                      loggedInSuperAdmin, TRUE, TRUE, 1)
     IN Rendered(s.wd, s.bag)
  /\ UNCHANGED << now, loginError, workspaces, superAdminProfile,
                  loggedInAdmin, loggedInVoter, booth, panel, pendingImport,
                  settings, sync >>
  /\ Debounced(FALSE)

(* The admin of w1 blocks voters and imports a spreadsheet of voters while  *)
(* the election is in progress; the file is read while the page is at rest  *)
(* or while a click is being rendered.  Handlers are explored from renders  *)
(* whose effects have settled.                                              *)
InitEffects ==
  Loaded(SeededSuperAdmin,
         StoredW1(FullBallot, "IN_PROGRESS", FALSE, TRUE, AdminOfW1, MaxLog - 3), "w1")

NextEffects ==
  \/ EffectsSettled /\ AdminLogin
  \/ EffectsSettled /\ handleWorkspaceLogout
  \/ EffectsSettled /\ ToggleVoterBlock
  \/ EffectsSettled /\ handleVotersImport
  \/ EffectsSettled /\ votersImportOnload
  \/ EffectsSettled /\ EndElection
  \/ VotersImportOnloadAfterToggle
  \/ effectsRound

SpecEffects == InitEffects /\ [][NextEffects]_vars

\* React runs the effects of every render it commits.
SpecEffectsFair == SpecEffects /\ WF_vars(effectsRound)

(* C39: the hydrate effect and the write-back effect always reach a         *)
(* fixpoint.  Whenever the working fields differ from the bag stored for    *)
(* the active workspace, also after a mutation that arrived between a       *)
(* write-back and the following hydrate, the effects stop re-triggering     *)
(* each other after finitely many rounds, with the working fields equal to  *)
(* workspaceData[activeWorkspace.id].                                       *)
C39_EffectsReachFixpoint == ~EffectsSettled ~> EffectsSettled

\* ------------------------------------------------------ the automatic end
(* The life cycle with time: the clock does not stop, and the interval of a *)
(* mounted CountdownTimer fires every second.                               *)
SpecLifecycleFair == SpecLifecycle /\ WF_vars(Tick) /\ WF_vars(CountdownEnd)

\* An end time is set and Date.now() has reached it.
EndTimePassed ==
  /\ electionDetails.endTime # NoTime /\ electionDetails.endTime > 0
  /\ electionDetails.endTime <= now

(* C40: if an end time is set, the election ends automatically.  Whenever   *)
(* electionStatus is IN_PROGRESS and the end time has passed, the status    *)
(* eventually becomes ENDED, whichever view is shown and without the admin  *)
(* acting; the countdown's end appends one ELECTION_END entry; and no Voter *)
(* session is granted once the end time has passed.                         *)
C40_ElectionEndsAutomatically ==
  /\ (PageShown /\ electionStatus = "IN_PROGRESS" /\ EndTimePassed)
       ~> (electionStatus = "ENDED")
  /\ [][ /\ CountdownEnd =>
              /\ Len(auditLog') = Len(auditLog) + 1
              /\ Head(auditLog').action = "ELECTION_END"
         /\ loggedInVoter = <<>> /\ loggedInVoter' # <<>> => ~EndTimePassed ]_vars
====
